---- MODULE Spec2Model ----
(***************************************************************************)
(* A model of the NMODL importer of pype9                                  *)
(* (src/pype9/neuron/importer/nmodl.py, class NMODLImporter).              *)
(*                                                                         *)
(* Text is modelled as sequences of tokens: a line of an NMODL file is a   *)
(* sequence of strings, each string one lexical unit (an identifier, a     *)
(* number, a unit string, an operator, a brace).  Wherever the source     *)
(* indexes or slices a line character by character, the model indexes and  *)
(* slices it token by token, with Python's zero-based, clamped slices.     *)
(*                                                                         *)
(* Python exceptions are modelled as an error field: an operator that is   *)
(* handed a state whose error field is set returns it unchanged, which is  *)
(* how a raised exception skips the rest of the code up to its handler.    *)
(***************************************************************************)
EXTENDS Integers, Sequences, FiniteSets, TLC

VARIABLES
    src,    \* the lines of the file being imported
    pc,     \* the method __init__ calls next, or how the call under study ended
    self,   \* the members of the NMODLImporter instance
    arg,    \* the arguments of the call under study
    ret,    \* what the call under study has raised or produced so far
    step    \* the call under study

vars == <<src, pc, self, arg, ret, step>>

(***************************************************************************)
(* Python built-ins                                                        *)
(***************************************************************************)
Min(a, b) == IF a < b THEN a ELSE b

\* s[a:b] for 0 <= a, 0 <= b: zero-based, end-exclusive, clamped to len(s)
Slice(s, a, b) ==
    IF Min(b, Len(s)) <= Min(a, Len(s)) THEN <<>>
    ELSE SubSeq(s, Min(a, Len(s)) + 1, Min(b, Len(s)))

\* s[a:]
SliceFrom(s, a) == Slice(s, a, Len(s))

\* s.startswith(p) and s.endswith(p) for str
StartsWith(s, p) == Len(s) >= Len(p) /\ SubSeq(s, 1, Len(p)) = p

EndsWith(s, p) == Len(s) >= Len(p) /\ SubSeq(s, Len(s) - Len(p) + 1, Len(s)) = p

\* x in s, for a sequence s
Contains(s, x) == \E i \in 1..Len(s) : s[i] = x

\* for x in xs: acc = Body(acc, x)
RECURSIVE ForEach(_, _, _)
ForEach(Body(_, _), acc, xs) ==
    IF xs = <<>> THEN acc ELSE ForEach(Body, Body(acc, xs[1]), Tail(xs))

\* the error field of a state that has raised nothing
NoError == "none"

\* the sequences over S of length at most n
RECURSIVE SeqsUpTo(_, _)
SeqsUpTo(S, n) ==
    IF n = 0 THEN {<<>>}
    ELSE LET shorter == SeqsUpTo(S, n - 1) IN
         shorter \cup {Append(s, x) : s \in {t \in shorter : Len(t) = n - 1},
                                      x \in S}

(***************************************************************************)
(* _matching_braces: a generator.  Its frame is the record g; MBResume     *)
(* runs it up to its next yield, its return or its raise.                  *)
(*   line        the name `line`, rebound after every yield                *)
(*   orig        the string object enumerate(line) iterates over           *)
(*   j           the zero-based index of the next character of orig        *)
(*   pos         the one-based index of the next line of line_iter, which  *)
(*               the generator shares with its caller                      *)
(***************************************************************************)
NL == "\n"

MBStart(line, multiline_pre) ==
    [line |-> line, orig |-> line, j |-> 0, depth |-> 0, preamble |-> <<>>,
     block |-> <<>>, start_index |-> 0, multiline_pre |-> multiline_pre]

\* the statements after the for loop, up to `line = next(line_iter)`
MBAfterLine(g) ==
    IF g.depth # 0
    THEN IF SliceFrom(g.line, g.start_index) # <<>>
         THEN [g EXCEPT !.block = Append(@, SliceFrom(g.line, g.start_index))]
         ELSE g
    ELSE IF g.line # <<>> /\ g.multiline_pre
         THEN [g EXCEPT !.preamble = @ \o g.line \o <<NL>>]
         ELSE g

\* the value the generator hands over at `yield preamble, block, line`
MBYield(g, j) ==
    [pre |-> g.preamble,
     blk |-> IF Slice(g.line, g.start_index, j) # <<>>
             THEN Append(g.block, Slice(g.line, g.start_index, j))
             ELSE g.block,
     nline |-> SliceFrom(g.line, j + 1)]

\* a mutation of MBEndOfInput: only a brace left open is reported
MBEndOfInputOpenOnly(depth) == IF depth > 0 THEN "error" ELSE "stop"

\* StopIteration of line_iter: `if depth: raise Pype9ImportError(...)`
MBEndOfInput(depth) == IF depth # 0 THEN "error" ELSE "stop"

RECURSIVE MBResume(_, _, _)
MBResume(g, lines, pos) ==
    IF g.j >= Len(g.orig)
    THEN \* the for loop over enumerate(line) is exhausted
         IF pos > Len(lines)
         THEN [out |-> MBEndOfInput(g.depth),
               g |-> MBAfterLine(g), pos |-> pos,
               pre |-> <<>>, blk |-> <<>>, nline |-> <<>>]
         ELSE MBResume([MBAfterLine(g) EXCEPT !.line = lines[pos],
                                               !.orig = lines[pos],
                                               !.j = 0,
                                               !.start_index = 0],
                       lines, pos + 1)
    ELSE LET c == g.orig[g.j + 1] IN
         IF c = "{"
         THEN MBResume([g EXCEPT !.start_index =
                                     IF g.depth = 0 THEN g.j + 1 ELSE @,
                                 !.preamble =
                                     IF g.depth = 0
                                     THEN @ \o Slice(g.line, 0, g.j) ELSE @,
                                 !.depth = @ + 1,
                                 !.j = @ + 1],
                       lines, pos)
         ELSE IF c = "}"
         THEN IF g.depth - 1 = 0
              THEN [out |-> "yield",
                    g |-> [g EXCEPT !.depth = 0,
                                    !.line = MBYield(g, g.j).nline,
                                    !.preamble = <<>>,
                                    !.block = <<>>,
                                    !.j = @ + 1],
                    pos |-> pos,
                    pre |-> MBYield(g, g.j).pre,
                    blk |-> MBYield(g, g.j).blk,
                    nline |-> MBYield(g, g.j).nline]
              ELSE MBResume([g EXCEPT !.depth = @ - 1, !.j = @ + 1],
                            lines, pos)
         ELSE MBResume([g EXCEPT !.j = @ + 1], lines, pos)

(***************************************************************************)
(* Python dicts are functions from keys (strings) to values.               *)
(***************************************************************************)
EmptyDict == <<>>

DictSet(d, k, v) == [x \in DOMAIN d \cup {k} |-> IF x = k THEN v ELSE d[x]]

DictDel(d, k) == [x \in DOMAIN d \ {k} |-> d[x]]

\* d.update(e)
DictUpdate(d, e) ==
    [x \in DOMAIN d \cup DOMAIN e |-> IF x \in DOMAIN e THEN e[x] ELSE d[x]]

(***************************************************************************)
(* The values of a statement map: a right-hand side is a str, a piecewise  *)
(* is a list of (expression, test) tuples, and the arguments of an         *)
(* in-built procedure are a list of str.                                   *)
(***************************************************************************)
Str(e) == [k |-> "str", v |-> e]

Pw(pieces) == [k |-> "pw", v |-> pieces]

Args(a) == [k |-> "args", v |-> a]

True == <<"True">>

\* Python's None, where a name or a dimension is expected
None == "None"

\* the dimension of nineml's StateVariable(name, dimension): dimensionless
\* when None is passed
StateVariable(dimension) ==
    IF dimension = None THEN "dimensionless" ELSE dimension

\* the tokens that hold a character outside \w
Punctuation ==
    {"+", "-", "*", "/", "(", ")", "=", "==", "<", ">", "&", "{", "}", ",",
     "[", "]", NL}

\* ''.join(tokens)
RECURSIVE Join(_)
Join(tokens) ==
    IF tokens = <<>> THEN "" ELSE tokens[1] \o Join(Tail(tokens))

\* notword_re.search(new)
NotWord(new) == \E i \in 1..Len(new) : new[i] \in Punctuation

\* re.sub(r'\b(old)\b', new, expr) on a str
RECURSIVE ReSubWord(_, _, _)
ReSubWord(old, new, expr) ==
    IF expr = <<>> THEN <<>>
    ELSE (IF expr[1] = old THEN new ELSE <<expr[1]>>)
             \o ReSubWord(old, new, Tail(expr))

\* the expression _subs_variable returns for a str: `new` is a str, here
\* a sequence of tokens
SubsStr(old, new, expr) ==
    ReSubWord(old, IF NotWord(new) THEN <<"(">> \o new \o <<")">> ELSE new,
              expr)

\* _subs_variable on a value of a statement map: only a str is rewritten
SubsValue(old, new, val) ==
    IF val.k = "str" THEN Str(SubsStr(old, new, val.v)) ELSE val

\* the update of self.dimensions that _subs_variable makes for a str
SubsDims(old, new, dims) ==
    IF old \in DOMAIN dims
    THEN DictSet(dims,
                 Join(IF NotWord(new) THEN <<"(">> \o new \o <<")">> ELSE new),
                 dims[old])
    ELSE dims

\* `for old, new in subs.iteritems(): rhs = self._subs_variable(old, new, rhs)`
RECURSIVE SubsAll(_, _)
SubsAll(subs, expr) ==
    IF DOMAIN subs = {} THEN expr
    ELSE LET old == CHOOSE k \in DOMAIN subs : TRUE IN
         SubsAll(DictDel(subs, old), SubsStr(old, subs[old], expr))

RECURSIVE SubsAllDims(_, _)
SubsAllDims(subs, dims) ==
    IF DOMAIN subs = {} THEN dims
    ELSE LET old == CHOOSE k \in DOMAIN subs : TRUE IN
         SubsAllDims(DictDel(subs, old), SubsDims(old, subs[old], dims))

\* rhs.replace('({})'.format(units), '') for one unit name
RECURSIVE StripUnit(_, _)
StripUnit(expr, u) ==
    IF Len(expr) < 3 THEN expr
    ELSE IF expr[1] = "(" /\ expr[2] = u /\ expr[3] = ")"
    THEN StripUnit(SliceFrom(expr, 3), u)
    ELSE <<expr[1]>> \o StripUnit(Tail(expr), u)

\* `for units in self.used_units: rhs = rhs.replace(...)`
RECURSIVE StripUnits(_, _)
StripUnits(expr, used_units) ==
    IF used_units = <<>> THEN expr
    ELSE StripUnits(StripUnit(expr, used_units[1]), Tail(used_units))

\* the number of parts assign_re.split(line) returns: one more than the
\* number of '=' characters not preceded by '<' or '>'
AssignParts(line) ==
    1 + Cardinality({i \in 1..Len(line) : line[i] = "="})
      + 2 * Cardinality({i \in 1..Len(line) : line[i] = "=="})

\* the index of the first token equal to x
IndexOf(s, x) == CHOOSE i \in 1..Len(s) : s[i] = x /\ \A m \in 1..(i - 1) : s[m] # x

(***************************************************************************)
(* _extract_assignment                                                     *)
(***************************************************************************)
\* nineml's is_builtin_symbol, for the names an NMODL file can assign
BuiltinSymbols == {"t", "pi", "e"}

\* the index of the last token equal to x, 0 if there is none
LastIndexOf(s, x) ==
    IF Contains(s, x)
    THEN CHOOSE i \in 1..Len(s) : s[i] = x /\ \A m \in (i + 1)..Len(s) : s[m] # x
    ELSE 0

\* re.match(r'(\w+) *\((.*)\)', line) succeeds
CallMatches(line) ==
    /\ Len(line) >= 3
    /\ line[1] \notin Punctuation
    /\ line[2] = "("
    /\ LastIndexOf(line, ")") > 2

\* its group(2): from the first '(' to the last ')'
CallArgs(line) == SubSeq(line, 3, LastIndexOf(line, ")") - 1)

\* re.search(r'\((.*)\)', pre) succeeds
HasParens(pre) ==
    Contains(pre, "(") /\ LastIndexOf(pre, ")") > IndexOf(pre, "(")

\* its group(1)
InParens(pre) == SubSeq(pre, IndexOf(pre, "(") + 1, LastIndexOf(pre, ")") - 1)

\* _split_args(arglist)[0]: split at the commas of depth 1, up to the
\* parenthesis that closes the list
RECURSIVE SplitArgsFrom(_, _, _, _)
SplitArgsFrom(arglist, i, depth, cur) ==
    IF i > Len(arglist)
    THEN IF cur = <<>> THEN <<>> ELSE <<cur>>
    ELSE LET c == arglist[i] IN
         IF c = "(" THEN SplitArgsFrom(arglist, i + 1, depth + 1, Append(cur, c))
         ELSE IF c = ")"
         THEN IF depth - 1 = 0
              THEN IF cur = <<>> THEN <<>> ELSE <<cur>>
              ELSE SplitArgsFrom(arglist, i + 1, depth - 1, Append(cur, c))
         ELSE IF c = "," /\ depth = 1
         THEN <<cur>> \o SplitArgsFrom(arglist, i + 1, depth, <<>>)
         ELSE SplitArgsFrom(arglist, i + 1, depth, Append(cur, c))

SplitArgs(arglist) == SplitArgsFrom(arglist, 1, 1, <<>>)

\* the nesting of inlined bodies the interpreter's stack admits before it
\* raises RuntimeError (maximum recursion depth exceeded)
MaxInlineDepth == 3

\* re.sub(r'[\. ]', '_', a) on the characters of one token
RECURSIVE ReplaceDots(_)
ReplaceDots(t) ==
    IF t = "" THEN ""
    ELSE (IF SubSeq(t, 1, 1) = "." THEN "_" ELSE SubSeq(t, 1, 1))
             \o ReplaceDots(SubSeq(t, 2, Len(t)))

\* the escapes of _args_suffix for one token of an argument; the pattern
\* (?=\w)\[(.*)\] matches nothing, so brackets stay
EscapeToken(t) ==
    CASE t = "+" -> "__p__"
      [] t = "-" -> "__m__"
      [] t = "*" -> "__x__"
      [] t = "/" -> "__d__"
      [] t = "(" -> "__o__"
      [] t = ")" -> "__c__"
      [] OTHER -> ReplaceDots(t)

RECURSIVE EscapeArg(_)
EscapeArg(a) ==
    IF a = <<>> THEN "" ELSE EscapeToken(a[1]) \o EscapeArg(Tail(a))

\* _args_suffix
RECURSIVE ArgsSuffix(_)
ArgsSuffix(arg_vals) ==
    IF arg_vals = <<>> THEN ""
    ELSE "_" \o EscapeArg(arg_vals[1]) \o ArgsSuffix(Tail(arg_vals))

\* _split_args(arglist)[1]: the argument list up to the parenthesis that
\* closes it
RECURSIVE RawArgsFrom(_, _, _)
RawArgsFrom(arglist, i, depth) ==
    IF i > Len(arglist) THEN arglist
    ELSE IF arglist[i] = "(" THEN RawArgsFrom(arglist, i + 1, depth + 1)
    ELSE IF arglist[i] = ")"
    THEN IF depth - 1 = 0 THEN SubSeq(arglist, 1, i - 1)
         ELSE RawArgsFrom(arglist, i + 1, depth - 1)
    ELSE RawArgsFrom(arglist, i + 1, depth)

\* expr.replace('{}({})'.format(raw_name, raw_arglist), name + suffix): a
\* replacement of text, which also takes the end of a longer name
RECURSIVE ReplaceCall(_, _, _, _)
ReplaceCall(expr, name, raw, suffix) ==
    IF Len(expr) < Len(raw) + 3 THEN expr
    ELSE IF /\ expr[1] \notin Punctuation
            /\ EndsWith(expr[1], name)
            /\ expr[2] = "("
            /\ SubSeq(expr, 3, Len(raw) + 2) = raw
            /\ expr[Len(raw) + 3] = ")"
    THEN <<expr[1] \o suffix>>
             \o ReplaceCall(SliceFrom(expr, Len(raw) + 3), name, raw, suffix)
    ELSE <<expr[1]>> \o ReplaceCall(Tail(expr), name, raw, suffix)

\* dict(zip(params, argvals) + zip(('{}_arg_'.format(p) for p in params),
\* argvals)); each parameter is the tokens of its name
FunctionSubs(params, argvals) ==
    LET n == IF Len(params) < Len(argvals) THEN Len(params) ELSE Len(argvals)
        Both(i) == {Join(params[i]), Join(params[i]) \o "_arg_"}
        At(k) == CHOOSE i \in 1..n :
                     k \in Both(i) /\ \A m \in (i + 1)..n : k \notin Both(m)
    IN [k \in UNION {Both(i) : i \in 1..n} |-> argvals[At(k)]]

\* dict(zip(pargs, argvals)), for as many arguments as parameters
ProcedureSubs(pargs, argvals) ==
    [k \in {Join(pargs[i]) : i \in 1..Len(pargs)} |->
        argvals[CHOOSE i \in 1..Len(pargs) :
                    /\ Join(pargs[i]) = k
                    /\ \A m \in (i + 1)..Len(pargs) : Join(pargs[m]) # k]]

\* the first match of r"\b(\w+ *)\((.*)\)" whose name self.functions holds;
\* 0 when every match raises KeyError
FirstUserCall(expr, me) ==
    LET hits == {i \in 1..(Len(expr) - 2) :
                    /\ expr[i] \in DOMAIN me.functions
                    /\ expr[i + 1] = "("
                    /\ \E j \in (i + 2)..Len(expr) : expr[j] = ")"}
    IN IF hits = {} THEN 0
       ELSE CHOOSE i \in hits : \A j \in hits : i <= j

RECURSIVE ExtractStmtsBlock(_, _, _, _)
RECURSIVE ExtractFunctionCalls(_, _, _)

\* `argvals = [self._extract_function_calls(a, statements) for a in
\* argvals]`: the arguments rewritten so far, the statement map and the
\* importer they leave, and the pending exception
RECURSIVE ExtractArgCalls(_, _, _, _)
ExtractArgCalls(argvals, done, statements, me) ==
    IF argvals = <<>>
    THEN [argvals |-> done, statements |-> statements, me |-> me,
          err |-> NoError]
    ELSE LET a == ExtractFunctionCalls(argvals[1], statements, me) IN
         IF a.err # NoError
         THEN [argvals |-> done, statements |-> a.statements, me |-> a.me,
               err |-> a.err]
         ELSE ExtractArgCalls(Tail(argvals), Append(done, a.expr),
                              a.statements, a.me)

\* the end of one pass of the for loop over the matches: the body b of the
\* function flattened under the suffix of its arguments a
InlinedCall(expr, name, raw, a, suffix, b) ==
    IF b.err # NoError
    THEN [expr |-> expr, statements |-> a.statements, me |-> a.me,
          err |-> b.err]
    ELSE ExtractFunctionCalls(ReplaceCall(expr, name, raw, suffix),
                              DictUpdate(a.statements, b.statements),
                              [b.me EXCEPT !.depth = a.me.depth])

\* the call replaced by its suffixed name, the body of the function never
\* flattened
InlineCallWithoutBody(expr, name, raw, a) ==
    IF a.err # NoError
    THEN [expr |-> expr, statements |-> a.statements, me |-> a.me,
          err |-> a.err]
    ELSE ExtractFunctionCalls(ReplaceCall(expr, name, raw,
                                          ArgsSuffix(a.argvals)),
                              a.statements, a.me)

\* one pass of the for loop over the matches, for the call of the user
\* function `name` with the arguments a
InlineCall(expr, name, raw, a) ==
    IF a.err # NoError
    THEN [expr |-> expr, statements |-> a.statements, me |-> a.me,
          err |-> a.err]
    ELSE IF a.me.depth >= MaxInlineDepth
    THEN [expr |-> expr, statements |-> a.statements, me |-> a.me,
          err |-> "RuntimeError"]
    ELSE InlinedCall(expr, name, raw, a, ArgsSuffix(a.argvals),
                     ExtractStmtsBlock(a.me.functions[name].block,
                                       FunctionSubs(a.me.functions[name].args,
                                                    a.argvals),
                                       ArgsSuffix(a.argvals),
                                       [a.me EXCEPT !.depth = @ + 1]))

\* _extract_function_calls: the expression, the statement map and the
\* importer it leaves, and the pending exception
ExtractFunctionCalls(expr, statements, me) ==
    LET i == FirstUserCall(expr, me) IN
    IF i = 0
    THEN [expr |-> expr, statements |-> statements, me |-> me,
          err |-> NoError]
    ELSE InlineCall(expr, expr[i],
                    RawArgsFrom(SubSeq(expr, i + 2, LastIndexOf(expr, ")") - 1),
                                1, 1),
                    ExtractArgCalls(SplitArgs(SubSeq(expr, i + 2,
                                                     LastIndexOf(expr, ")") - 1)),
                                    <<>>, statements, me))

\* the temporary name the while loop of _extract_assignment settles on
RECURSIVE TmpCount(_, _, _)
TmpCount(lhs, statements, count) ==
    IF (lhs \o "__tmp" \o ToString(count)) \in DOMAIN statements
    THEN TmpCount(lhs, statements, count + 1)
    ELSE lhs \o "__tmp" \o ToString(count)

TmpName(lhs, statements) ==
    IF (lhs \o "__tmp") \in DOMAIN statements
    THEN TmpCount(lhs, statements, 1)
    ELSE lhs \o "__tmp"

\* the substitution of tmp_lhs into one previous right-hand side
ShadowValue(old, new, val) ==
    IF val.k = "str" THEN SubsValue(old, new, val)
    ELSE Pw([i \in 1..Len(val.v) |->
                <<SubsStr(old, new, val.v[i][1]),
                  SubsStr(old, new, val.v[i][2])>>])

\* `for l, r in statements.iteritems(): statements[l] = ...`, which visits
\* the entry of tmp_lhs added just before it as well
ShadowAll(statements, old, new) ==
    [l \in DOMAIN statements |-> ShadowValue(old, new, statements[l])]

\* a list of str where a list of 2-tuples is unpacked: `for expr, test in r`
\* raises ValueError (unless every str is two characters long)
ShadowRaises(statements) ==
    \E l \in DOMAIN statements : statements[l].k = "args"

\* _extract_assignment from the call of _extract_function_calls on: f is
\* what that call returned
Assign(lhs, f, subs, suffix) ==
    LET statements == f.statements
        rhs1 == f.expr
        dims1 == f.me.dimensions
        lhs_w_suffix == IF (lhs \o suffix) \in BuiltinSymbols
                        THEN lhs \o suffix \o "_" ELSE lhs \o suffix
        subs1 == IF suffix # "" THEN DictSet(subs, lhs, <<lhs_w_suffix>>)
                 ELSE subs
        shadows == lhs_w_suffix \in DOMAIN statements
        tmp_lhs == TmpName(lhs_w_suffix, statements)
        with_tmp == DictSet(statements, tmp_lhs, statements[lhs_w_suffix])
        rhs2 == IF shadows THEN SubsStr(lhs_w_suffix, <<tmp_lhs>>, rhs1)
                ELSE rhs1
        statements1 == IF shadows /\ ~ShadowRaises(with_tmp)
                       THEN ShadowAll(with_tmp, lhs_w_suffix, <<tmp_lhs>>)
                       ELSE statements
        dims2 == IF shadows THEN SubsDims(lhs_w_suffix, <<tmp_lhs>>, dims1)
                 ELSE dims1
    IN IF f.err # NoError
       THEN [statements |-> statements, subs |-> subs,
             me |-> [f.me EXCEPT !.dimensions = dims1], err |-> f.err]
       ELSE IF shadows /\ ShadowRaises(with_tmp)
       THEN [statements |-> with_tmp, subs |-> subs1,
             me |-> [f.me EXCEPT !.dimensions = dims2], err |-> "ValueError"]
       ELSE [statements |-> DictSet(statements1, lhs_w_suffix,
                                    Str(StripUnits(rhs2, f.me.used_units))),
             subs |-> subs1,
             me |-> [f.me EXCEPT !.dimensions = dims2],
             err |-> NoError]

ExtractAssignment(line, statements, subs, suffix, me) ==
    Assign(Join(SubSeq(line, 1, IndexOf(line, "=") - 1)),
           ExtractFunctionCalls(SubsAll(subs, SliceFrom(line, IndexOf(line, "="))),
                                statements,
                                [me EXCEPT !.dimensions = SubsAllDims(subs, @)]),
           subs, suffix)

(***************************************************************************)
(* Helpers of _extract_stmts_block                                         *)
(***************************************************************************)
\* _iterate_block: each line cut at its first ':' (a comment), empty lines
\* dropped
RECURSIVE IterateBlock(_)
IterateBlock(block) ==
    IF block = <<>> THEN <<>>
    ELSE LET line == IF Contains(block[1], ":")
                     THEN SubSeq(block[1], 1, IndexOf(block[1], ":") - 1)
                     ELSE block[1]
         IN (IF line = <<>> THEN <<>> ELSE <<line>>)
                \o IterateBlock(Tail(block))

\* the tokens \d+ matches
NumberTokens == {ToString(n) : n \in 0..9}

\* getitem_re.sub(r'\1__elem\2', line)
RECURSIVE GetItemSub(_)
GetItemSub(line) ==
    IF Len(line) < 4 THEN line
    ELSE IF /\ line[1] \notin Punctuation
            /\ line[2] = "["
            /\ line[3] \in NumberTokens
            /\ line[4] = "]"
    THEN <<line[1] \o "__elem" \o line[3]>> \o GetItemSub(SliceFrom(line, 4))
    ELSE <<line[1]>> \o GetItemSub(Tail(line))

\* '_'.join(args), each argument a str
RECURSIVE JoinArgs(_)
JoinArgs(args) ==
    IF args = <<>> THEN ""
    ELSE IF Len(args) = 1 THEN Join(args[1])
    ELSE Join(args[1]) \o "_" \o JoinArgs(Tail(args))

\* lhs.startswith('__INBUILT_PROC'): a key holds that prefix exactly when
\* its value is the argument list of an in-built procedure
IsInbuilt(val) == val.k = "args"

\* _unwrap_piecewise_stmt(stmt, test, pieces)
UnwrapPiecewiseStmt(stmt, test, pieces) ==
    IF stmt.k = "pw"
    THEN pieces \o [i \in 1..Len(stmt.v) |->
                       <<stmt.v[i][1],
                         IF stmt.v[i][2] = True THEN test
                         ELSE <<"(">> \o test \o <<")", "&", "(">>
                                  \o stmt.v[i][2] \o <<")">>>>]
    ELSE Append(pieces, <<stmt.v, test>>)

\* `try: line = next(line_iter) except StopIteration: line = ''`
Advance(L, lines) ==
    IF L.pos > Len(lines) THEN [L EXCEPT !.line = <<>>]
    ELSE [L EXCEPT !.line = lines[L.pos], !.pos = @ + 1]

Raise(L, e) == [L EXCEPT !.err = e]

(***************************************************************************)
(* The second half of _extract_conditional_block: the branches gathered    *)
(* in conditional_stmts, a list of (test, stmts), are merged into the      *)
(* statement map of the enclosing block.                                   *)
(***************************************************************************)
\* lhs[:-len(suffix)] if suffix else lhs
StripSuffix(lhs, suffix) ==
    IF suffix = "" THEN lhs ELSE SubSeq(lhs, 1, Len(lhs) - Len(suffix))

BranchName(lhs, i, suffix) ==
    StripSuffix(lhs, suffix) \o "__branch" \o ToString(i) \o suffix

\* `common_lhss = reduce(set.intersection, ...)`
CommonLhss(cstmts) ==
    {lhs \in DOMAIN cstmts[1][2] :
        \A i \in 1..Len(cstmts) : lhs \in DOMAIN cstmts[i][2]}

\* `state_assigns = set(v for v in chain(...) if v in self.state_variables)`
StateAssigns(cstmts, me) ==
    {v \in UNION {DOMAIN cstmts[i][2] : i \in 1..Len(cstmts)} :
        v \in DOMAIN me.state_variables}

\* `stmts[lhs][-1] = (rhs[-1] + ' & ' + test) if rhs else test`
WithTest(val, test) ==
    IF IsInbuilt(val) /\ val.v # <<>>
    THEN Args([val.v EXCEPT ![Len(val.v)] = @ \o <<"&">> \o test])
    ELSE val

\* `for old, new in branch_subs.iteritems(): ... self._subs_variable(...)`
RECURSIVE BranchSubs(_, _, _, _)
BranchSubs(val, olds, i, suffix) ==
    IF olds = {} THEN val
    ELSE LET old == CHOOSE k \in olds : TRUE IN
         BranchSubs(SubsValue(old, <<BranchName(old, i, suffix)>>, val),
                    olds \ {old}, i, suffix)

RECURSIVE BranchSubsDims(_, _, _, _)
BranchSubsDims(dims, olds, i, suffix) ==
    IF olds = {} THEN dims
    ELSE LET old == CHOOSE k \in olds : TRUE IN
         BranchSubsDims(SubsDims(old, <<BranchName(old, i, suffix)>>, dims),
                        olds \ {old}, i, suffix)

\* one iteration of `for i, (test, stmts) in enumerate(conditional_stmts)`
\* (the first loop): the branch's statements afterwards, and what the
\* iteration does to the enclosing statement map and to self.dimensions
ProcessBranch(i, test, stmts, statements, me, common, state_assigns, suffix) ==
    LET missing == state_assigns \ DOMAIN stmts
        \* stmts[sa] = statements.pop(sa, sa)
        filled == [k \in DOMAIN stmts \cup missing |->
                      IF k \in DOMAIN stmts THEN WithTest(stmts[k], test)
                      ELSE IF k \in DOMAIN statements THEN statements[k]
                      ELSE Str(<<k>>)]
        popped == [k \in DOMAIN statements \ missing |-> statements[k]]
        olds == {k \in DOMAIN filled : k \notin common}
        substituted == [k \in DOMAIN filled |->
                           IF IsInbuilt(filled[k]) THEN filled[k]
                           ELSE BranchSubs(filled[k], olds, i, suffix)]
        renamed == [k \in (DOMAIN filled \ olds)
                           \cup {BranchName(o, i, suffix) : o \in olds} |->
                       IF k \in DOMAIN filled \ olds THEN substituted[k]
                       ELSE substituted[CHOOSE o \in olds :
                                            BranchName(o, i, suffix) = k]]
        escaped == [k \in {BranchName(o, i, suffix) : o \in olds} |->
                       renamed[k]]
        touches == \E k \in DOMAIN filled :
                       ~IsInbuilt(filled[k]) /\ filled[k].k = "str"
    IN [stmts |-> renamed,
        statements |-> DictUpdate(popped, escaped),
        me |-> IF touches
               THEN [me EXCEPT !.dimensions =
                                   BranchSubsDims(@, olds, i, suffix)]
               ELSE me]

RECURSIVE ProcessBranches(_, _, _, _, _, _, _)
ProcessBranches(i, cstmts, done, S, common, state_assigns, suffix) ==
    IF i > Len(cstmts) THEN [branches |-> done, S |-> S]
    ELSE LET b == ProcessBranch(i - 1, cstmts[i][1], cstmts[i][2],
                                S.statements, S.me, common, state_assigns,
                                suffix)
         IN ProcessBranches(i + 1, cstmts,
                            Append(done, <<cstmts[i][1], b.stmts>>),
                            [S EXCEPT !.statements = b.statements,
                                      !.me = b.me],
                            common, state_assigns, suffix)

\* the pieces the branches give for lhs (the loop over conditional_stmts
\* that calls _unwrap_piecewise_stmt)
RECURSIVE BranchPieces(_, _, _)
BranchPieces(branches, lhs, pieces) ==
    IF branches = <<>> THEN pieces
    ELSE BranchPieces(Tail(branches), lhs,
                      UnwrapPiecewiseStmt(branches[1][2][lhs], branches[1][1],
                                          pieces))

\* `rhs[-1] += '({}) & ({})'.format(rhs[-1], test)` for every branch
InbuiltBranches(branches, lhs) ==
    [k \in {lhs \o "branch_" \o ToString(i - 1) : i \in 1..Len(branches)} |->
        LET i == CHOOSE n \in 1..Len(branches) :
                     lhs \o "branch_" \o ToString(n - 1) = k
            rhs == branches[i][2][lhs].v
        IN Args([rhs EXCEPT ![Len(rhs)] =
                    @ \o <<"(">> \o @ \o <<")", "&", "(">>
                      \o branches[i][1] \o <<")">>])]

\* `self._unwrap_piecewise_stmt(rhs, 'True', pieces)`
Otherwise(rhs, pieces) == UnwrapPiecewiseStmt(rhs, True, pieces)

\* one iteration of `for lhs in common_lhss`
MergeOne(lhs, branches, S, no_otherwise, suffix) ==
    LET pieces == BranchPieces(branches, lhs, <<>>)
        \* lhs[:-len(suffix)] is '' when suffix is ''
        arg_key == SubSeq(lhs, 1, Len(lhs) - Len(suffix)) \o "_arg_"
    IN
    IF IsInbuilt(branches[1][2][lhs])
    THEN [S EXCEPT !.statements = DictUpdate(@, InbuiltBranches(branches, lhs))]
    ELSE IF ~no_otherwise
    THEN IF lhs \in DOMAIN S.statements
         THEN Raise(S, "AssertionError")
         ELSE [S EXCEPT !.statements = DictSet(@, lhs, Pw(pieces))]
    ELSE IF lhs \in DOMAIN S.statements
    THEN [S EXCEPT !.statements =
                       DictSet(@, lhs, Pw(Otherwise(S.statements[lhs], pieces)))]
    ELSE IF lhs \in DOMAIN S.me.properties
    THEN [S EXCEPT !.subs = DictSet(@, lhs, <<lhs \o "_constrained">>),
                   !.statements =
                       DictSet(@, lhs \o "_constrained",
                               Pw(Otherwise(Str(<<lhs>>), pieces)))]
    ELSE IF lhs \in DOMAIN S.me.state_variables
    THEN [S EXCEPT !.statements =
                       DictSet(@, lhs, Pw(Otherwise(Str(<<lhs>>), pieces)))]
    ELSE IF arg_key \in DOMAIN S.subs
    THEN [S EXCEPT !.statements =
                       DictSet(@, lhs,
                               Pw(Otherwise(Str(S.subs[arg_key]), pieces)))]
    ELSE IF lhs \in DOMAIN S.me.dimensions
    THEN [S EXCEPT !.me.state_variables =
                       DictSet(@, lhs, StateVariable(S.me.dimensions[lhs])),
                   !.statements =
                       DictSet(@, lhs, Pw(Otherwise(Str(<<lhs>>), pieces)))]
    ELSE IF Len(branches) = 1
    THEN [S EXCEPT !.statements = DictSet(@, lhs, branches[1][2][lhs])]
    ELSE Raise(S, "Pype9ImportError")

RECURSIVE MergeAll(_, _, _, _, _)
MergeAll(todo, branches, S, no_otherwise, suffix) ==
    IF todo = {} \/ S.err # NoError THEN S
    ELSE LET lhs == CHOOSE k \in todo : TRUE IN
         MergeAll(todo \ {lhs}, branches,
                  MergeOne(lhs, branches, S, no_otherwise, suffix),
                  no_otherwise, suffix)

\* lines 1372-1482 of _extract_conditional_block
CondMerge(cstmts, L, suffix) ==
    IF cstmts = <<>> THEN Raise(L, "UnboundLocalError")
    ELSE LET no_otherwise == cstmts[Len(cstmts)][1] # True
             state_assigns == StateAssigns(cstmts, L.me)
             common == CommonLhss(cstmts) \cup state_assigns
             Suffixed(S) ==
                 IF suffix # "" /\ S.err = NoError
                 THEN [S EXCEPT !.subs =
                          DictUpdate(@, [k \in {StripSuffix(c, suffix) :
                                                   c \in common}
                                           |-> <<CHOOSE c \in common :
                                                     StripSuffix(c, suffix) = k>>])]
                 ELSE S
             Merge(p) ==
                 Suffixed(MergeAll(common, p.branches, p.S, no_otherwise, suffix))
         IN Merge(ProcessBranches(1, cstmts, <<>>, L, common, state_assigns,
                                  suffix))

(***************************************************************************)
(* _extract_stmts_block, with the first half of _extract_conditional_block *)
(* and _extract_transition_block.  The frame L of a block being flattened  *)
(* holds the current line, the position pos of line_iter, the statement    *)
(* map, the dict subs (one object, shared with the nested calls), the     *)
(* importer and the pending exception.                                     *)
(***************************************************************************)
\* the peek at the line after a sub-block: `while not nline.strip(): nline
\* = next(line_iter)`; the lines of line_iter are never empty
Peek(nline, lines, pos) ==
    IF nline # <<>> \/ pos > Len(lines) THEN [nline |-> nline, pos |-> pos]
    ELSE [nline |-> lines[pos], pos |-> pos + 1]

\* the (key, value) an in-built procedure call is recorded under
InbuiltStmt(line) ==
    LET args == IF line[1] = "WATCH"
                THEN Append(SplitArgs(CallArgs(line)), <<line[Len(line)]>>)
                ELSE Append(SplitArgs(CallArgs(line)), True)
    IN [key |-> "__INBUILT_PROC_" \o line[1] \o "_" \o JoinArgs(args),
        val |-> Args(args)]

InbuiltProcs == {"net_send", "net_event", "WATCH"}

\* re.search(r'flag\s*==', line)
FlagTest(line) ==
    \E i \in 1..(Len(line) - 1) : line[i] = "flag" /\ line[i + 1] = "=="

\* `elif match.group(1) in ('for', 'while'): raise Pype9ImportError(...)`
RejectsLoop(name) == name \in {"for", "while"}

RECURSIVE ESBLoop(_, _, _)
RECURSIVE CondLoop(_, _, _, _, _, _)
RECURSIVE TransLoop(_, _, _, _, _)

ExtractStmtsBlock(block, subs, suffix, me) ==
    LET lines == IterateBlock(block) IN
    ESBLoop(lines,
            [line |-> IF lines = <<>> THEN <<>> ELSE lines[1], pos |-> 2,
             statements |-> EmptyDict, subs |-> subs, me |-> me,
             err |-> NoError],
            suffix)

\* `state_discontinuity(state, assignment)`
StateDiscontinuity(line, L) ==
    LET parts == SplitArgs(CallArgs(line))
        Assigned(r) ==
            IF r.err # NoError THEN Raise(L, r.err)
            ELSE [L EXCEPT !.me = [r.me EXCEPT !.default_subs = r.subs],
                           !.statements =
                               DictSet(@, "__STATE_ASSIGNMENT_" \o Join(parts[1]),
                                       r.statements[CHOOSE k \in DOMAIN r.statements
                                                        : TRUE])]
    IN IF Len(parts) # 2 THEN Raise(L, "ValueError")
       \* subs is left out of the call: the dict of the def line is used
       ELSE Assigned(ExtractStmtsBlock(<<<<"__state__", "=">> \o parts[2]>>,
                                       L.me.default_subs, "", L.me))

\* one pass of the for loop over _matching_braces of
\* _extract_conditional_block, from the flattened sub-block b and the peeked
\* line pk on; r is what the generator yielded
CondBranch(r, test, b, pk, lines, L, suffix, cstmts, pos0) ==
    LET L1 == [L EXCEPT !.subs = b.subs, !.me = b.me, !.pos = pk.pos,
                        !.err = b.err]
    IN IF b.err # NoError THEN L1
       ELSE IF ~Contains(pk.nline, "else")
       THEN CondMerge(Append(cstmts, <<test, b.statements>>),
                      [L1 EXCEPT !.line = pk.nline], suffix)
       ELSE CondLoop(MBResume(r.g, lines, L1.pos), lines, L1, suffix,
                     Append(cstmts, <<test, b.statements>>), pos0)

\* one pass of the for loop over _matching_braces of
\* _extract_conditional_block, from the test t with its function calls
\* substituted on
CondTest(r, t, lines, L, suffix, cstmts, pos0) ==
    IF t.err # NoError THEN Raise(L, t.err)
    ELSE CondBranch(r, t.expr,
                    ExtractStmtsBlock(r.blk, L.subs, suffix, t.me),
                    Peek(r.nline, lines, r.pos), lines,
                    [L EXCEPT !.statements = t.statements], suffix, cstmts,
                    pos0)

\* the for loop over _matching_braces of _extract_conditional_block; r is
\* the generator resumed, pos0 the position of line_iter when the method
\* was entered
CondLoop(r, lines, L, suffix, cstmts, pos0) ==
    LET \* the loop ends without a break: `line` is still the line the
        \* method was called with, which the caller flattens again; with
        \* no line consumed in between it does so for ever
        Merged(m) ==
            IF m.err = NoError /\ r.pos = pos0 THEN Raise(m, "Diverges") ELSE m
    IN IF r.out = "error" THEN Raise(L, "Pype9ImportError")
       ELSE IF r.out = "stop"
       THEN Merged(CondMerge(cstmts, [L EXCEPT !.pos = r.pos], suffix))
       ELSE CondTest(r,
                     IF HasParens(r.pre)
                     THEN ExtractFunctionCalls(
                              SubsAll(L.subs, InParens(r.pre)), L.statements,
                              [L.me EXCEPT !.dimensions = SubsAllDims(L.subs, @)])
                     ELSE [expr |-> True, statements |-> L.statements,
                           me |-> L.me, err |-> NoError],
                     lines, L, suffix, cstmts, pos0)

\* `flag_match = re.match(r'\s*flag\s*==\s*(\d+)\s*', test)` succeeds
FlagMatches(test) ==
    Len(test) >= 3 /\ test[1] = "flag" /\ test[2] = "=="
        /\ test[3] \in NumberTokens

\* `statements.update(('__TRANSITION_{}_'.format(flag) + lhs, rhs) ...)`
TransitionStmts(flag, stmts) ==
    [k \in {"__TRANSITION_" \o flag \o "_" \o lhs : lhs \in DOMAIN stmts} |->
        stmts[CHOOSE lhs \in DOMAIN stmts :
                  "__TRANSITION_" \o flag \o "_" \o lhs = k]]

\* one pass of the for loop of _extract_transition_block, from the flattened
\* sub-block b and the peeked line pk on
TransBranch(r, flag, b, pk, lines, L, suffix, pos0) ==
    LET L1 == [L EXCEPT !.subs = b.subs, !.me = b.me, !.pos = pk.pos,
                        !.err = b.err,
                        !.statements =
                            DictUpdate(@, TransitionStmts(flag, b.statements))]
    IN IF b.err # NoError THEN L1
       ELSE IF ~Contains(pk.nline, "else")
       THEN [L1 EXCEPT !.line = pk.nline]
       ELSE TransLoop(MBResume(r.g, lines, L1.pos), lines, L1, suffix, pos0)

\* _extract_transition_block
TransLoop(r, lines, L, suffix, pos0) ==
    IF r.out = "error" THEN Raise(L, "Pype9ImportError")
    ELSE IF r.out = "stop"
    THEN IF r.pos = pos0 THEN Raise(L, "Diverges")
         ELSE [L EXCEPT !.pos = r.pos]
    ELSE IF HasParens(r.pre)
            /\ Cardinality({i \in 1..Len(r.pre) : r.pre[i] = "flag"}) # 1
    THEN Raise(L, "AssertionError")
    ELSE IF HasParens(r.pre) /\ ~FlagMatches(InParens(r.pre))
    THEN Raise(L, "Pype9ImportError")
    ELSE TransBranch(r, IF HasParens(r.pre) THEN InParens(r.pre)[3] ELSE "0",
                     ExtractStmtsBlock(r.blk, L.subs, suffix, L.me),
                     Peek(r.nline, lines, r.pos), lines, L, suffix, pos0)

\* the call of a PROCEDURE from its body b flattened on: `if suffix:
\* subs.update(...)` and `statements.update(pstmts)`
InlinedProcedure(lines, L, suffix, a, b) ==
    IF b.err # NoError THEN Raise(L, b.err)
    ELSE ESBLoop(lines,
                 Advance([L EXCEPT
                            !.statements = DictUpdate(a.statements, b.statements),
                            !.subs =
                                IF suffix # ""
                                THEN DictUpdate(@,
                                         [k \in {StripSuffix(lhs, suffix) :
                                                    lhs \in DOMAIN b.statements}
                                             |-> <<k \o suffix>>])
                                ELSE @,
                            !.me = [b.me EXCEPT !.depth = a.me.depth]],
                         lines),
                 suffix)

\* the call of the PROCEDURE proc with the arguments a, their function
\* calls substituted
ProcedureCall(lines, L, proc, suffix, a) ==
    IF a.err # NoError THEN Raise(L, a.err)
    ELSE IF Len(a.argvals) # Len(proc.args) THEN Raise(L, "AssertionError")
    ELSE IF a.me.depth >= MaxInlineDepth THEN Raise(L, "RuntimeError")
    ELSE InlinedProcedure(lines, L, suffix, a,
                          ExtractStmtsBlock(proc.block,
                                            ProcedureSubs(proc.args, a.argvals),
                                            suffix,
                                            [a.me EXCEPT !.depth = @ + 1]))

\* one statement of the while loop of _extract_stmts_block, its array
\* indexing escaped: a conditional, a loop or a procedure call when it has
\* no '=' or has a '{', an assignment otherwise
ESBStmt(lines, L, line, suffix) ==
    LET Inbuilt(stmt) ==
            ESBLoop(lines,
                    Advance([L EXCEPT !.statements = DictSet(@, stmt.key, stmt.val),
                                      !.subs =
                                          IF suffix # ""
                                          THEN DictSet(@, StripSuffix(stmt.key, suffix),
                                                       <<stmt.key>>)
                                          ELSE @],
                            lines),
                    suffix)
        Assignment(a) ==
            ESBLoop(lines,
                    Advance([L EXCEPT !.statements = a.statements,
                                      !.subs = a.subs,
                                      !.me = a.me,
                                      !.err = a.err],
                            lines),
                    suffix)
    IN
    IF AssignParts(line) # 1 /\ ~Contains(line, "{")
    THEN IF AssignParts(line) = 2
         THEN Assignment(ExtractAssignment(line, L.statements, L.subs, suffix,
                                           L.me))
         ELSE Raise(L, "Pype9ImportError")
    ELSE IF ~CallMatches(line) THEN Raise(L, "Pype9ImportError")
    ELSE IF line[1] = "if"
    THEN IF FlagTest(line)
         THEN ESBLoop(lines,
                      TransLoop(MBResume(MBStart(line, TRUE), lines, L.pos), lines,
                                [L EXCEPT !.line = line], suffix, L.pos),
                      suffix)
         ELSE ESBLoop(lines,
                      CondLoop(MBResume(MBStart(line, TRUE), lines, L.pos), lines,
                               [L EXCEPT !.line = line], suffix, <<>>, L.pos),
                      suffix)
    ELSE IF RejectsLoop(line[1]) THEN Raise(L, "Pype9ImportError")
    ELSE IF line[1] = "state_discontinuity"
    THEN ESBLoop(lines, Advance(StateDiscontinuity(line, L), lines), suffix)
    ELSE IF line[1] \in InbuiltProcs
    THEN Inbuilt(InbuiltStmt(line))
    ELSE IF line[1] \in DOMAIN L.me.procedures
    THEN ProcedureCall(lines, L, L.me.procedures[line[1]], suffix,
                       ExtractArgCalls(SplitArgs(CallArgs(line)), <<>>,
                                       L.statements, L.me))
    ELSE IF line[1] \in DOMAIN L.me.functions
    THEN ESBLoop(lines, Advance(L, lines), suffix)
    ELSE Raise(L, "Pype9ImportError")

ESBLoop(lines, L, suffix) ==
    IF L.err # NoError \/ L.line = <<>> THEN L
    ELSE IF L.line[1] = "TABLE"
    THEN IF ~Contains(L.line, "WITH")
         THEN IF L.pos > Len(lines) THEN Raise(L, "Pype9ImportError")
              ELSE ESBLoop(lines,
                           [L EXCEPT !.line = @ \o lines[L.pos], !.pos = @ + 1],
                           suffix)
         ELSE IF L.pos > Len(lines) THEN Raise(L, "StopIteration")
              ELSE ESBLoop(lines, Advance(L, lines), suffix)
    ELSE IF L.line[1] = "LOCAL" \/ L.line \in {<<"UNITSON">>, <<"UNITSOFF">>}
    THEN IF L.pos > Len(lines) /\ L.line[1] = "LOCAL"
         THEN Raise(L, "Pype9ImportError")
         ELSE ESBLoop(lines, Advance(L, lines), suffix)
    ELSE IF L.line[1] = "VERBATIM" THEN Raise(L, "Pype9ImportError")
    ELSE IF L.line[1] = "printf" THEN ESBLoop(lines, Advance(L, lines), suffix)
    ELSE ESBStmt(lines, L, GetItemSub(L.line), suffix)

(***************************************************************************)
(* _get_piecewise, reached from _set_alias for a list of pieces            *)
(***************************************************************************)
\* _substitute_functions
SubstituteFunctions(rhs) == ReSubWord("fabs", <<"abs">>, rhs)

\* the alias of a piecewise: the pieces in order, the otherwise last
GetPiecewise(lhs, rhs) ==
    LET trues == {i \in 1..Len(rhs) : rhs[i][2] = True}
        RECURSIVE Others(_)
        Others(i) ==
            IF i > Len(rhs) THEN <<>>
            ELSE (IF rhs[i][2] = True THEN <<>>
                  ELSE <<<<SubstituteFunctions(rhs[i][1]),
                           SubstituteFunctions(rhs[i][2])>>>>) \o Others(i + 1)
    IN IF Cardinality(trues) # 1
       THEN [err |-> "AssertionError", lhs |-> lhs, pieces |-> <<>>]
       ELSE [err |-> NoError, lhs |-> lhs,
             pieces |-> Append(Others(1),
                               <<SubstituteFunctions(
                                     rhs[CHOOSE i \in trues : TRUE][1]),
                                 True>>)]

(***************************************************************************)
(* The flattener applied to blocks of statements, and _get_piecewise       *)
(* applied to lists of pieces.                                             *)
(***************************************************************************)
MaxStmts == 3

MaxPieces == 3

\* the statements a block is put together from, each the lines it is
\* written on
StmtLines ==
    [x_1 |-> << <<"x", "=", "1">> >>,
     x_inc |-> << <<"x", "=", "x", "+", "1">> >>,
     x_dbl |-> << <<"x", "=", "x", "*", "2">> >>,
     y_x |-> << <<"y", "=", "x">> >>,
     if_else |-> << <<"if", "(", "c", ")", "{">>, <<"a", "=", "1">>,
                    <<"}", "else", "{">>, <<"a", "=", "2">>, <<"}">> >>,
     if_else_1line |-> << <<"if", "(", "c", ")", "{", "a", "=", "1", "}",
                            "else", "{", "a", "=", "2", "}">> >>,
     if_x |-> << <<"if", "(", "c", ")", "{">>, <<"x", "=", "5">>, <<"}">> >>,
     else_if |-> << <<"if", "(", "c", ")", "{">>, <<"a", "=", "1">>,
                    <<"}", "else", "if", "(", "d", ")", "{">>,
                    <<"a", "=", "2">>, <<"}">> >>,
     nested |-> << <<"if", "(", "c", ")", "{">>,
                   <<"if", "(", "d", ")", "{">>, <<"x", "=", "3">>,
                   <<"}", "else", "{">>, <<"x", "=", "4">>, <<"}">>,
                   <<"}", "else", "{">>, <<"x", "=", "5">>, <<"}">> >>,
     nested_if |-> << <<"if", "(", "c", ")", "{">>,
                      <<"if", "(", "d", ")", "{">>, <<"x", "=", "3">>,
                      <<"}">>, <<"}">> >>,
     if_x_else_a |-> << <<"if", "(", "c", ")", "{">>, <<"x", "=", "5">>,
                        <<"a", "=", "1">>,
                        <<"}", "else", "{">>, <<"a", "=", "2">>, <<"}">> >>,
     if_x_else_else |-> << <<"if", "(", "c", ")", "{">>, <<"x", "=", "5">>,
                           <<"a", "=", "1">>,
                           <<"}", "else", "if", "(", "d", ")", "{">>,
                           <<"a", "=", "2">>,
                           <<"}", "else", "{">>, <<"a", "=", "3">>,
                           <<"}">> >>]

RECURSIVE Block(_)
Block(stmts) ==
    IF stmts = <<>> THEN <<>> ELSE StmtLines[stmts[1]] \o Block(Tail(stmts))

\* the importer a block is flattened by: nothing declared but, possibly,
\* the state variable x
Importers ==
    {[functions |-> EmptyDict, procedures |-> EmptyDict,
      dimensions |-> sv, used_units |-> <<>>, state_variables |-> sv,
      properties |-> EmptyDict, default_subs |-> EmptyDict, depth |-> 0] :
        sv \in {EmptyDict, [k \in {"x"} |-> None]}}

PieceLists == SeqsUpTo({<<<<"1">>, <<"c">>>>, <<<<"2">>, True>>}, MaxPieces)

FlattenInit ==
    /\ src = <<>>
    /\ self = <<>>
    /\ pc = "idle"
    /\ step = "flatten"
    /\ ret = <<>>
    /\ arg \in {[op |-> "_extract_stmts_block", stmts |-> b, me |-> i] :
                    b \in SeqsUpTo(DOMAIN StmtLines, MaxStmts), i \in Importers}
               \cup {[op |-> "_get_piecewise", rhs |-> r] : r \in PieceLists}

\* self._extract_stmts_block(block)
FlattenBlock ==
    /\ pc = "idle"
    /\ arg.op = "_extract_stmts_block"
    /\ ret' = ExtractStmtsBlock(Block(arg.stmts), arg.me.default_subs, "",
                                arg.me)
    /\ pc' = "done"
    /\ UNCHANGED <<src, self, arg, step>>

\* self._get_piecewise(lhs, rhs)
BuildPiecewise ==
    /\ pc = "idle"
    /\ arg.op = "_get_piecewise"
    /\ ret' = GetPiecewise("a", arg.rhs)
    /\ pc' = "done"
    /\ UNCHANGED <<src, self, arg, step>>

FlattenNext == FlattenBlock \/ BuildPiecewise

SpecFlatten == FlattenInit /\ [][FlattenNext]_vars

(***************************************************************************)
(* The flattener applied to blocks that call the FUNCTION and PROCEDURE    *)
(* blocks of a file, hold loops and index arrays.                          *)
(***************************************************************************)
MaxCalls == 2

\* the FUNCTION blocks of the file: f of one parameter, g of two, h that
\* calls f, r that calls itself and w that loops
Functions ==
    [f |-> [args |-> << <<"x">> >>,
            block |-> << <<"f", "=", "x", "*", "2">> >>],
     g |-> [args |-> << <<"a">>, <<"b">> >>,
            block |-> << <<"g", "=", "a", "+", "b">> >>],
     h |-> [args |-> << <<"x">> >>,
            block |-> << <<"h", "=", "f", "(", "x", ")", "+", "1">> >>],
     r |-> [args |-> << <<"x">> >>,
            block |-> << <<"r", "=", "x", "*", "r", "(", "x", ")">> >>],
     w |-> [args |-> << <<"x">> >>,
            block |-> << <<"while", "(", "x", ")", "{">>,
                         <<"w", "=", "x">>, <<"}">> >>]]

\* its PROCEDURE blocks: p that assigns u, q that loops
Procedures ==
    [p |-> [args |-> << <<"v">> >>,
            block |-> << <<"u", "=", "v", "*", "2">> >>],
     q |-> [args |-> << <<"v">> >>,
            block |-> << <<"while", "(", "v", ")", "{">>,
                         <<"u", "=", "v">>, <<"}">> >>]]

\* the statements a calling block is put together from
CallLines ==
    [y_f_a |-> << <<"y", "=", "f", "(", "a", ")">> >>,
     z_f_a |-> << <<"z", "=", "f", "(", "a", ")">> >>,
     z_f_b |-> << <<"z", "=", "f", "(", "b", ")">> >>,
     g_ab_c |-> << <<"s", "=", "g", "(", "a_b", ",", "c", ")">> >>,
     g_a_bc |-> << <<"k", "=", "g", "(", "a", ",", "b_c", ")">> >>,
     y_h |-> << <<"y", "=", "h", "(", "a", ")">> >>,
     y_r |-> << <<"y", "=", "r", "(", "a", ")">> >>,
     y_w |-> << <<"y", "=", "w", "(", "a", ")">> >>,
     w_alone |-> << <<"w", "(", "a", ")">> >>,
     p_1 |-> << <<"p", "(", "1", ")">> >>,
     p_2 |-> << <<"p", "(", "2", ")">> >>,
     p_1_2 |-> << <<"p", "(", "1", ",", "2", ")">> >>,
     u_0 |-> << <<"u", "=", "0">> >>,
     if_u |-> << <<"if", "(", "c", ")", "{">>, <<"u", "=", "1">>,
                 <<"}", "else", "{">>, <<"u", "=", "2">>, <<"}">> >>,
     q_a |-> << <<"q", "(", "a", ")">> >>,
     while_c |-> << <<"while", "(", "c", ")", "{">>, <<"x", "=", "1">>,
                    <<"}">> >>,
     if_while |-> << <<"if", "(", "c", ")", "{">>,
                     <<"while", "(", "d", ")", "{">>, <<"x", "=", "1">>,
                     <<"}">>, <<"}">> >>,
     else_while |-> << <<"if", "(", "c", ")", "{">>, <<"x", "=", "1">>,
                       <<"}", "else", "{">>,
                       <<"for", "(", "d", ")", "{">>, <<"x", "=", "2">>,
                       <<"}">>, <<"}">> >>,
     send_f |-> << <<"net_send", "(", "f", "(", "a", ")", ",", "1", ")">> >>,
     x_1_x_2 |-> << <<"x", "[", "1", "]", "=", "x", "[", "2", "]", "+", "1">> >>,
     x_i |-> << <<"y", "=", "x", "[", "i", "]">> >>,
     if_x_2 |-> << <<"if", "(", "c", ")", "{">>, <<"a", "=", "1">>,
                   <<"}", "else", "if", "(", "x", "[", "2", "]", ">", "0", ")",
                     "{">>,
                   <<"a", "=", "2">>, <<"}">> >>]

RECURSIVE CallBlock(_)
CallBlock(stmts) ==
    IF stmts = <<>> THEN <<>> ELSE CallLines[stmts[1]] \o CallBlock(Tail(stmts))

\* the importer of the file when its BREAKPOINT block is flattened
Library ==
    [functions |-> Functions, procedures |-> Procedures,
     dimensions |-> EmptyDict, used_units |-> <<>>,
     state_variables |-> EmptyDict, properties |-> EmptyDict,
     default_subs |-> EmptyDict, depth |-> 0]

InlineInit ==
    /\ src = <<>>
    /\ self = <<>>
    /\ pc = "idle"
    /\ step = "inline"
    /\ ret = <<>>
    /\ arg \in {[op |-> "_extract_stmts_block", stmts |-> b, me |-> Library] :
                    b \in SeqsUpTo(DOMAIN CallLines, MaxCalls)}

\* self._extract_stmts_block(block), for a block of CallLines
InlineBlock ==
    /\ pc = "idle"
    /\ step = "inline"
    /\ ret' = ExtractStmtsBlock(CallBlock(arg.stmts), arg.me.default_subs, "",
                                arg.me)
    /\ pc' = "done"
    /\ UNCHANGED <<src, self, arg, step>>

SpecInline == InlineInit /\ [][InlineBlock]_vars

(***************************************************************************)
(* Units: _sanitize_units, _units2SI and _units2dimension.  The registry   *)
(* of the quantities package is a table from the unit names it resolves to *)
(* their SI dimensionality; the UNITS block adds aliases to it.            *)
(***************************************************************************)
PqUnits ==
    ("S/cm^2" :> "s**3*A**2/(kg*m**4)") @@ ("mV" :> "kg*m**2/(s**3*A)")
        @@ ("millivolt" :> "kg*m**2/(s**3*A)") @@ ("ms" :> "s")
        @@ ("nA" :> "A") @@ ("uF" :> "s**4*A**2/(kg*m**2)")
        @@ ("coulomb" :> "s*A") @@ ("kg" :> "kg")
        @@ ("mA/cm^2" :> "A/m**2") @@ ("J/K" :> "kg*m**2/(s**2*K)")
        @@ ("dimensionless" :> "dimensionless")

\* _SI_to_dimension
SIToDimension ==
    ("m/s" :> "conductance") @@ ("s**2" :> "time**2")
        @@ ("kg*m**2/(s**3*A)" :> "voltage")
        @@ ("kg*m**2/(s**4*A)" :> "voltage/time")
        @@ ("s**4*A**2/(kg*m**2)" :> "current*time/voltage")
        @@ ("mol/m**3" :> "concentration") @@ ("A/m**2" :> "currentDensity")
        @@ ("s" :> "time") @@ ("K" :> "temperature")
        @@ ("kg/(m**3*s)" :> "flux") @@ ("1/(s*A)" :> "mass_per_charge")
        @@ ("m" :> "length")
        @@ ("s**3*A**2/(kg*m**4)" :> "conductanceDensity")
        @@ ("A" :> "current") @@ ("A/s" :> "current_per_time")
        @@ ("s**3*A**2/(kg*m**2)" :> "conductance") @@ ("1/s" :> "per_time")
        @@ ("s*A/m**3" :> "charge_density")
        @@ ("m**3/(s*mol)" :> "per_time_per_concentration")
        @@ ("mol/m**2" :> "substance_per_area") @@ ("s*A" :> "charge")
        @@ ("s**3*A/(kg*m**2)" :> "per_voltage")
        @@ ("kg*m**2/(s**2*K)" :> "energy_per_temperature")
        @@ (None :> "dimensionless")

Digits == {"0", "1", "2", "3", "4", "5", "6", "7", "8", "9"}

\* re.sub(r'([a-zA-Z])([0-9\.]+)', r'\1^\2', units); the characters of a
\* unit name are letters, digits, '.', '/', '*' and '^'
RECURSIVE InsertPower(_)
InsertPower(units) ==
    IF Len(units) < 2 THEN units
    ELSE IF Head(units) \notin Digits \cup {".", "/", "*", "^"}
            /\ Head(Tail(units)) \in Digits \cup {"."}
    THEN Head(units) \o "^" \o InsertPower(Tail(units))
    ELSE Head(units) \o InsertPower(Tail(units))

\* _sanitize_units without the substitution that writes powers with '^'
SanitizeUnitsWithoutPowers(units) ==
    IF units = "1" THEN "dimensionless"
    ELSE IF units = "mv" THEN "mV"
    ELSE IF StartsWith(units, "/") THEN "1" \o units
    ELSE units

\* _sanitize_units, for unit names without '-' and without blanks
SanitizeUnits(units) ==
    IF units = "1" THEN "dimensionless"
    ELSE InsertPower(IF units = "mv" THEN "mV"
                     ELSE IF StartsWith(units, "/") THEN "1" \o units
                     ELSE units)

\* _units2SI(units)[0] for a str: pq.Quantity raises LookupError for a
\* name the registry does not hold
Units2SI(units, registry) ==
    IF units \in {"1", "dimensionless"} THEN [err |-> NoError, si |-> None]
    ELSE LET u == SanitizeUnits(IF StartsWith(units, "/") THEN "1.0" \o units
                                ELSE units)
         IN IF u \in DOMAIN registry
            THEN [err |-> NoError, si |-> registry[u]]
            ELSE [err |-> "LookupError", si |-> None]

\* _units2dimension
Units2Dimension(units, registry) ==
    LET r == Units2SI(units, registry) IN
    IF r.err # NoError THEN [err |-> r.err, dim |-> None]
    ELSE IF r.si \notin DOMAIN SIToDimension
    THEN [err |-> "KeyError", dim |-> None]
    ELSE [err |-> NoError, dim |-> SIToDimension[r.si]]

(***************************************************************************)
(* The files imported: a minimal mechanism, and the files that differ from *)
(* it in at most MaxDeviations blocks.                                     *)
(***************************************************************************)
MaxDeviations == 2

\* the ways each block of a file is written, the first of each being the
\* one of the minimal mechanism
BlockVariants ==
    [neuron |->
        [mech |-> << <<"NEURON", "{">>, <<"SUFFIX", "hh">>,
                     <<"NONSPECIFIC_CURRENT", "i">>, <<"}">> >>,
         none |-> << >>,
         point |-> << <<"NEURON", "{">>, <<"POINT_PROCESS", "syn">>,
                      <<"RANGE", "i", ",", "g">>, <<"}">> >>,
         useion |-> << <<"NEURON", "{">>, <<"SUFFIX", "hh">>,
                       <<"USEION", "na", "READ", "ena", "WRITE", "ina">>,
                       <<"}">> >>,
         ambiguous |-> << <<"NEURON", "{">>, <<"SUFFIX", "hh">>,
                          <<"USEION", "k", "READ", "ek", "WRITE", "i">>,
                          <<"}">> >>],
     units |->
        [none |-> << >>,
         alias |-> << <<"UNITS", "{">>,
                      <<"(", "mV", ")", "=", "(", "millivolt", ")">>,
                      <<"(", "mvolt", ")", "=", "(", "millivolt", ")">>,
                      <<"}">> >>,
         unresolvable |-> << <<"UNITS", "{">>,
                            <<"(", "zz", ")", "=", "(", "frobnicate", ")">>,
                            <<"}">> >>,
         constant |-> << <<"UNITS", "{">>,
                         <<"R", "=", "(", "k-mole", ")", "(", "J/K", ")">>,
                         <<"}">> >>],
     parameter |->
        [valued |-> << <<"PARAMETER", "{">>,
                       <<"gbar", "=", "0.1", "(", "S/cm2", ")">>, <<"}">> >>,
         none |-> << >>,
         unknown_dimension |->
             << <<"PARAMETER", "{">>,
                <<"gbar", "=", "0.1", "(", "kg", ")">>, <<"}">> >>,
         unresolvable |->
             << <<"PARAMETER", "{">>,
                <<"gbar", "=", "0.1", "(", "frobnicate", ")">>, <<"}">> >>,
         unvalued_unresolvable |->
             << <<"PARAMETER", "{">>,
                <<"gbar", "(", "frobnicate", ")">>, <<"}">> >>,
         two_assignments |->
             << <<"PARAMETER", "{">>,
                <<"gbar", "=", "0.1", "=", "0.2">>, <<"}">> >>],
     assigned |->
        [none |-> << >>,
         declared |-> << <<"ASSIGNED", "{">>, <<"v", "(", "mV", ")">>,
                         <<"i", "(", "mA/cm2", ")">>, <<"g">>, <<"}">> >>,
         aliased |->
             << <<"ASSIGNED", "{">>, <<"w", "(", "mvolt", ")">>, <<"}">> >>,
         unknown_dimension |->
             << <<"ASSIGNED", "{">>, <<"w", "(", "kg", ")">>, <<"}">> >>,
         unresolvable |->
             << <<"ASSIGNED", "{">>, <<"w", "(", "frobnicate", ")">>,
                <<"}">> >>],
     state |->
        [unitless |-> << <<"STATE", "{", "m", "}">> >>,
         none |-> << >>,
         with_units |->
             << <<"STATE", "{">>, <<"m", "(", "mV", ")">>, <<"}">> >>,
         unknown_dimension |->
             << <<"STATE", "{">>, <<"m", "(", "kg", ")">>, <<"}">> >>,
         unresolvable |->
             << <<"STATE", "{">>, <<"m", "(", "frobnicate", ")">>, <<"}">> >>],
     initial |->
        [none |-> << >>,
         assigns |-> << <<"INITIAL", "{">>, <<"m", "=", "0">>, <<"}">> >>,
         sends |-> << <<"INITIAL", "{">>,
                      <<"net_send", "(", "0", ",", "1", ")">>, <<"}">> >>],
     breakpoint |->
        [assigns |-> << <<"BREAKPOINT", "{">>,
                        <<"i", "=", "gbar", "*", "m">>, <<"}">> >>,
         none |-> << >>,
         constrains |-> << <<"BREAKPOINT", "{">>,
                           <<"if", "(", "m", ">", "1", ")", "{">>,
                           <<"gbar", "=", "1">>, <<"}">>,
                           <<"i", "=", "gbar", "*", "m">>, <<"}">> >>,
         reads_v |-> << <<"BREAKPOINT", "{">>,
                        <<"i", "=", "gbar", "*", "m", "*", "v">>, <<"}">> >>,
         solves |-> << <<"BREAKPOINT", "{">>,
                       <<"SOLVE", "states", "METHOD", "cnexp">>,
                       <<"i", "=", "gbar", "*", "m">>, <<"}">> >>,
         solve_without_method |->
             << <<"BREAKPOINT", "{">>, <<"SOLVE", "states">>,
                <<"i", "=", "gbar", "*", "m">>, <<"}">> >>,
         loop |-> << <<"BREAKPOINT", "{">>, <<"i", "=", "gbar", "*", "m">>,
                     <<"while", "(", "m", ")", "{">>, <<"}">>, <<"}">> >>],
     derivative |->
        [one |-> << <<"DERIVATIVE", "states", "{">>,
                    <<"m'", "=", "(", "1", "-", "m", ")", "/", "5">>,
                    <<"}">> >>,
         none |-> << >>,
         loop |-> << <<"DERIVATIVE", "states", "{">>,
                     <<"while", "(", "m", ")", "{">>, <<"}">>, <<"}">> >>,
         two |-> << <<"DERIVATIVE", "states", "{">>,
                    <<"m'", "=", "(", "1", "-", "m", ")", "/", "5">>,
                    <<"}">>,
                    <<"DERIVATIVE", "others", "{">>,
                    <<"m'", "=", "0">>, <<"}">> >>,
         two_of_one_name |->
             << <<"DERIVATIVE", "states", "{">>,
                <<"m'", "=", "(", "1", "-", "m", ")", "/", "5">>,
                <<"}">>,
                <<"DERIVATIVE", "states", "{">>,
                <<"m'", "=", "0">>, <<"}">> >>],
     netreceive |->
        [none |-> << >>,
         delayed |->
             << <<"NET_RECEIVE", "(", "w", ")", "{">>,
                <<"if", "(", "flag", "==", "0", ")", "{">>,
                <<"net_send", "(", "5", ",", "1", ")">>,
                <<"}", "else", "if", "(", "flag", "==", "1", ")", "{">>,
                <<"m", "=", "1">>, <<"}">>, <<"}">> >>,
         delayed_weighted |->
             << <<"NET_RECEIVE", "(", "w", ")", "{">>,
                <<"if", "(", "flag", "==", "0", ")", "{">>,
                <<"net_send", "(", "2", ",", "3", ")">>,
                <<"}", "else", "if", "(", "flag", "==", "3", ")", "{">>,
                <<"m", "=", "m", "+", "w">>, <<"}">>, <<"}">> >>,
         two_senders |->
             << <<"NET_RECEIVE", "(", "w", ")", "{">>,
                <<"if", "(", "flag", "==", "0", ")", "{">>,
                <<"net_send", "(", "5", ",", "1", ")">>,
                <<"}", "else", "if", "(", "flag", "==", "2", ")", "{">>,
                <<"net_send", "(", "3", ",", "1", ")">>,
                <<"}", "else", "if", "(", "flag", "==", "1", ")", "{">>,
                <<"m", "=", "1">>, <<"}">>, <<"}">> >>,
         no_handler |->
             << <<"NET_RECEIVE", "(", "w", ")", "{">>,
                <<"if", "(", "flag", "==", "0", ")", "{">>,
                <<"net_send", "(", "5", ",", "7", ")">>,
                <<"}", "else", "if", "(", "flag", "==", "1", ")", "{">>,
                <<"m", "=", "1">>, <<"}">>, <<"}">> >>,
         periodic |->
             << <<"NET_RECEIVE", "(", "w", ")", "{">>,
                <<"if", "(", "flag", "==", "0", ")", "{">>,
                <<"net_send", "(", "5", ",", "1", ")">>,
                <<"}", "else", "if", "(", "flag", "==", "1", ")", "{">>,
                <<"m", "=", "1">>,
                <<"net_send", "(", "5", ",", "1", ")">>,
                <<"}">>, <<"}">> >>,
         watch |->
             << <<"NET_RECEIVE", "(", "w", ")", "{">>,
                <<"if", "(", "flag", "==", "1", ")", "{">>,
                <<"WATCH", "(", "m", ">", "1", ")", "2">>,
                <<"}", "else", "if", "(", "flag", "==", "2", ")", "{">>,
                <<"m", "=", "0">>, <<"net_event", "(", "t", ")">>,
                <<"}">>, <<"}">> >>,
         watch_unhandled |->
             << <<"NET_RECEIVE", "(", "w", ")", "{">>,
                <<"if", "(", "flag", "==", "0", ")", "{">>,
                <<"m", "=", "m", "+", "w">>,
                <<"}", "else", "if", "(", "flag", "==", "1", ")", "{">>,
                <<"WATCH", "(", "m", ">", "1", ")", "2">>,
                <<"}">>, <<"}">> >>,
         plain |-> << <<"NET_RECEIVE", "(", "w", ")", "{">>,
                      <<"m", "=", "m", "+", "w">>, <<"}">> >>,
         loop |-> << <<"NET_RECEIVE", "(", "w", ")", "{">>,
                     <<"while", "(", "m", ")", "{">>, <<"}">>, <<"}">> >>],
     extra |->
        [none |-> << >>,
         stray |-> << <<"FOO", "{">>, <<"}">> >>,
         independent |->
             << <<"INDEPENDENT", "{">>,
                <<"t", "FROM", "0", "TO", "1", "WITH", "1", "(", "ms", ")">>,
                <<"}">> >>,
         unclosed |-> << <<"FOO", "{">> >>]]

\* the blocks of a file in the order they are written in
BlockOrder ==
    <<"neuron", "units", "parameter", "assigned", "state", "initial",
      "breakpoint", "derivative", "netreceive", "extra">>

\* the minimal mechanism
Minimal ==
    [neuron |-> "mech", units |-> "none", parameter |-> "valued",
     assigned |-> "none", state |-> "unitless", initial |-> "none",
     breakpoint |-> "assigns", derivative |-> "one", netreceive |-> "none",
     extra |-> "none"]

\* the files: for each block the way it is written
RECURSIVE FilesFrom(_, _)
FilesFrom(i, deviations) ==
    IF i > Len(BlockOrder) THEN {Minimal}
    ELSE LET b == BlockOrder[i] IN
         {[f EXCEPT ![b] = v] :
              f \in FilesFrom(i + 1, deviations - 1),
              v \in IF deviations > 0 THEN DOMAIN BlockVariants[b] \ {Minimal[b]}
                    ELSE {}}
             \cup FilesFrom(i + 1, deviations)

Files == FilesFrom(1, MaxDeviations)

\* self.contents.splitlines() of a file, after its TITLE line
Contents(file) ==
    LET f[i \in 0..Len(BlockOrder)] ==
            IF i = 0 THEN << <<"TITLE", "minimal">> >>
            ELSE f[i - 1] \o BlockVariants[BlockOrder[i]][file[BlockOrder[i]]]
    IN f[Len(BlockOrder)]

(***************************************************************************)
(* The import, NMODLImporter.__init__: the file is src, a list of lines;   *)
(* self is the importer under construction, err its pending exception.     *)
(***************************************************************************)
\* the importer when _read_blocks is called, the members it has not yet
\* been given at the values they are first given
NewImporter(kwargs) ==
    [kwargs |-> kwargs, blocks |-> EmptyDict, incomplete_import |-> FALSE, warnings |-> <<>>,
     aliases |-> EmptyDict, constants |-> EmptyDict, properties |-> EmptyDict,
     regimes |-> EmptyDict, state_variables |-> EmptyDict,
     parameters |-> EmptyDict, analog_ports |-> EmptyDict,
     event_ports |-> {}, kinetics |-> EmptyDict,
     used_units |-> <<"degC", "kelvin">>, used_ions |-> EmptyDict,
     initial_state |-> EmptyDict, init_statements |-> EmptyDict,
     model_type |-> None, component_name |-> None, range_vars |-> {},
     pointers |-> {}, default_regime |-> None, functions |-> EmptyDict,
     procedures |-> EmptyDict, dimensions |-> EmptyDict,
     breakpoint_solve_methods |-> EmptyDict,
     initial_solve_methods |-> EmptyDict, regime_parts |-> <<>>,
     initial_flag |-> None, net_receives |-> EmptyDict,
     triggers |-> EmptyDict, breakpoint_aliases |-> EmptyDict,
     unit_registry |-> PqUnits, default_subs |-> EmptyDict, depth |-> 0,
     err |-> NoError]

\* except clauses that append the warning and leave incomplete_import
RecoverWithoutFlag(S, stage) ==
    IF S.err = "Pype9ImportError"
    THEN [S EXCEPT !.err = NoError,
                   !.warnings =
                       Append(@, IF stage = "_extract_breakpoint_block"
                                 THEN "Could not import BREAKPOINT block"
                                 ELSE "Could not import NET_RECEIVE block")]
    ELSE S

\* the except clauses of __init__: an import error of the BREAKPOINT or of
\* the NET_RECEIVE extraction is turned into a warning
Recover(S, stage) ==
    IF S.err = "Pype9ImportError"
    THEN [S EXCEPT !.err = NoError, !.incomplete_import = TRUE,
                   !.warnings =
                       Append(@, IF stage = "_extract_breakpoint_block"
                                 THEN "Could not import BREAKPOINT block"
                                 ELSE "Could not import NET_RECEIVE block")]
    ELSE S

\* a stage of an __init__ that calls every method in a try statement
RunTryingEveryStage(stage, next, after, in_try) ==
    /\ step = "import"
    /\ pc = stage
    /\ self' = Recover(after, stage)
    /\ pc' = IF self'.err = NoError THEN next ELSE "raised"
    /\ ret' = IF after.err = NoError THEN ret
              ELSE Append(ret, [stage |-> stage, err |-> after.err])
    /\ UNCHANGED <<src, arg, step>>

\* one stage of __init__: the call of a method at `stage`, which leaves the
\* importer as `after`.  An exception ends the import, unless it is an
\* import error of a stage called in a try statement.  ret is the list of
\* the exceptions raised so far.
Run(stage, next, after, in_try) ==
    /\ step = "import"
    /\ pc = stage
    /\ self' = IF in_try THEN Recover(after, stage) ELSE after
    /\ pc' = IF self'.err = NoError THEN next ELSE "raised"
    /\ ret' = IF after.err = NoError THEN ret
              ELSE Append(ret, [stage |-> stage, err |-> after.err])
    /\ UNCHANGED <<src, arg, step>>

\* d.pop(k, default)
Pop(d, k, default) == IF k \in DOMAIN d THEN d[k] ELSE default

\* the words of a line that are not commas: list_re.split of a list of names
Names(tokens) == {tokens[i] : i \in {n \in 1..Len(tokens) : tokens[n] # ","}}

\* _read_blocks
ReadBlocks ==
    LET S == self
        lines == src
        after ==
            LET RECURSIVE From(_, _, _)
                From(g, pos, blocks) ==
                    LET r == MBResume(g, lines, pos) IN
                    IF r.out = "error"
                    THEN [S EXCEPT !.blocks = blocks, !.err = "Pype9ImportError"]
                    ELSE IF r.out = "stop" THEN [S EXCEPT !.blocks = blocks]
                    ELSE IF r.pre = <<>> \/ r.pre[1] \in Punctuation
                    THEN [S EXCEPT !.blocks = blocks, !.err = "AttributeError"]
                    ELSE LET block_name == r.pre[1]
                             rest == Tail(r.pre)
                         IN From(r.g, r.pos,
                                 DictSet(blocks, block_name,
                                         IF block_name = "NET_RECEIVE"
                                         THEN <<Slice(rest, 1, Len(rest) - 1), r.blk>>
                                         ELSE IF rest # <<>>
                                         THEN DictSet(Pop(blocks, block_name, EmptyDict),
                                                      rest, r.blk)
                                         ELSE r.blk))
            IN From(MBStart(<<>>, FALSE), 1, EmptyDict)
    IN Run("_read_blocks", "_extract_defines", after, FALSE)

\* _extract_defines: the lines `DEFINE name value` after the first line
ExtractDefines ==
    LET S == self
        lines == src
        after ==
            LET defines == {i \in 2..Len(lines) :
                                Len(lines[i]) >= 3 /\ lines[i][1] = "DEFINE"}
                names == {lines[i][2] : i \in defines}
            IN [S EXCEPT
                   !.parameters = DictUpdate(@, [n \in names |-> "dimensionless"]),
                   !.properties =
                       DictUpdate(@, [n \in names |->
                           [value |-> lines[CHOOSE i \in defines : lines[i][2] = n][3],
                            units |-> "dimensionless"]])]
    IN Run("_extract_defines", "_extract_neuron_block", after, FALSE)

\* the match of `.*WORD ((?:\w+(?: *\, *)?)+)` split by list_re: the names
\* after the last WORD, as long as commas join them
ListAfter(line, word) ==
    LET RECURSIVE Take(_)
        Take(n) ==
            IF n > Len(line) \/ line[n] \in Punctuation THEN <<>>
            ELSE <<line[n]>> \o (IF n < Len(line) /\ line[n + 1] = ","
                                 THEN Take(n + 2) ELSE <<>>)
    IN IF Contains(line, word) THEN Take(LastIndexOf(line, word) + 1) ELSE <<>>

\* one USEION line of the NEURON block
UseIon(S, line) ==
    LET read == ListAfter(line, "READ")
        write == ListAfter(line, "WRITE")
        valence == ListAfter(line, "VALENCE")
        Conc(T, c) ==
            IF T.err # NoError THEN T
            ELSE IF StartsWith(c, "i")
            THEN IF EndsWith(c, "i") \/ EndsWith(c, "o")
                 THEN [T EXCEPT !.err = "Pype9ImportError"]
                 ELSE [T EXCEPT !.dimensions = DictSet(@, c, "membrane_current")]
            ELSE IF EndsWith(c, "i") \/ EndsWith(c, "o")
            THEN [T EXCEPT !.dimensions = DictSet(@, c, "concentration")]
            ELSE T
    IN ForEach(Conc,
               [S EXCEPT !.used_ions =
                   DictSet(@, line[2],
                           [read |-> read, write |-> write,
                            valence |-> IF valence # <<>>
                                           /\ valence[1] \in NumberTokens
                                        THEN valence[1] ELSE None])],
               read \o write)

\* _extract_neuron_block
ExtractNeuronBlock ==
    LET S == self
        after ==
            LET lines == IterateBlock(Pop(S.blocks, "NEURON", <<>>))
                Line(T, line) ==
                    IF T.err # NoError THEN T
                    ELSE IF line[1] \in {"SUFFIX", "POINT_PROCESS", "ARTIFICIAL_CELL"}
                    THEN IF Len(line) < 2 THEN [T EXCEPT !.err = "IndexError"]
                         ELSE [T EXCEPT !.component_name = line[2],
                                        !.model_type =
                                            IF line[1] = "SUFFIX" THEN "mechanism"
                                            ELSE IF line[1] = "POINT_PROCESS"
                                            THEN "point_process" ELSE "artificial"]
                    ELSE IF line[1] = "RANGE"
                    THEN [T EXCEPT !.range_vars = @ \cup Names(Tail(line))]
                    ELSE IF line[1] = "POINTER"
                    THEN [T EXCEPT !.pointers = @ \cup Names(Tail(line))]
                    ELSE IF line[1] = "USEION"
                    THEN IF Len(line) < 2 \/ line[2] \in Punctuation
                         THEN [T EXCEPT !.err = "AttributeError"]
                         ELSE UseIon(T, line)
                    ELSE IF line[1] = "NONSPECIFIC_CURRENT"
                    THEN IF Len(line) < 2 \/ line[2] \in Punctuation
                         THEN [T EXCEPT !.err = "AttributeError"]
                         ELSE [T EXCEPT
                                  !.used_ions =
                                      DictSet(@, "__nonspecific__",
                                              [read |-> <<>>, write |-> <<line[2]>>,
                                               valence |-> None]),
                                  !.dimensions = DictSet(@, line[2], "membrane_current")]
                    ELSE T
            IN \* self.blocks.pop('NEURON') has no default
               IF "NEURON" \notin DOMAIN S.blocks
               THEN [S EXCEPT !.component_name = None, !.err = "KeyError"]
               ELSE ForEach(Line, [S EXCEPT !.blocks = DictDel(@, "NEURON"),
                            !.component_name = None], lines)
    IN Run("_extract_neuron_block", "_extract_units_block", after, FALSE)

\* the keys of a dict in the order iteritems() visits them: an order fixed
\* by the keys
RECURSIVE Keys(_)
Keys(d) ==
    IF DOMAIN d = {} THEN <<>>
    ELSE LET k == CHOOSE x \in DOMAIN d : TRUE
         IN <<k>> \o Keys(DictDel(d, k))

\* _inbuilt_constants: the value and the units of each
InbuiltConstants ==
    ("faraday" :> <<"96485.3365", "coulomb">>)
        @@ ("k-mole" :> <<"8.3144621", "J/K">>)
        @@ ("pi" :> <<"3.14159265359", "dimensionless">>)

\* _units2nineml_units, as far as it can fail: the unit itself is not kept
Units2NinemlUnits(units, registry) ==
    LET r == Units2SI(units, registry) IN
    IF r.err # NoError THEN [err |-> r.err, dim |-> None]
    ELSE IF r.si \notin DOMAIN SIToDimension
    THEN [err |-> "Pype9ImportError", dim |-> None]
    ELSE [err |-> NoError, dim |-> SIToDimension[r.si]]

\* _extract_units_block
ExtractUnitsBlock ==
    LET S == self
        after ==
            LET lines == IterateBlock(Pop(S.blocks, "UNITS", <<>>))
                Line(T, line0) ==
                    LET line == IF line0[1] = "(" /\ Len(line0) >= 3 /\ line0[3] = ")"
                                THEN <<line0[2]>> \o SliceFrom(line0, 3)
                                ELSE line0
                        matches == /\ Len(line) \in {5, 8}
                                   /\ line[1] \notin Punctuation
                                   /\ line[2] = "=" /\ line[3] = "(" /\ line[5] = ")"
                                   /\ Len(line) = 8 => line[6] = "(" /\ line[8] = ")"
                    IN IF T.err # NoError THEN T
                       ELSE IF ~matches THEN [T EXCEPT !.err = "AttributeError"]
                       ELSE IF Len(line) = 8
                       THEN LET declared_units == SanitizeUnits(line[7])
                                u == Units2NinemlUnits(InbuiltConstants[line[4]][2],
                                                       T.unit_registry)
                            IN IF line[4] \notin DOMAIN InbuiltConstants
                               THEN [T EXCEPT !.err = "KeyError"]
                               ELSE IF declared_units \notin DOMAIN T.unit_registry
                               THEN [T EXCEPT !.err = "LookupError"]
                               ELSE IF u.err # NoError THEN [T EXCEPT !.err = u.err]
                               ELSE [T EXCEPT !.constants = DictSet(@, line[1], u.dim)]
                       ELSE LET alias == line[1]
                                unitname == line[4]
                            IN IF alias \in DOMAIN T.unit_registry
                               THEN [T EXCEPT !.used_units = Append(@, alias)]
                               ELSE IF unitname \notin DOMAIN T.unit_registry
                               THEN [T EXCEPT !.err = "Pype9ImportError"]
                               ELSE [T EXCEPT
                                        !.unit_registry =
                                            DictSet(@, alias, T.unit_registry[unitname]),
                                        !.used_units = Append(@, alias)]
            IN ForEach(Line, [S EXCEPT !.blocks = DictDel(@, "UNITS")], lines)
    IN Run("_extract_units_block", "_extract_assigned_block", after, FALSE)

\* s[:-1] for a str
DropLast(s) == SubSeq(s, 1, Len(s) - 1)

\* _extract_assigned_block
ExtractAssignedBlock ==
    LET S == self
        after ==
            LET lines == IterateBlock(Pop(S.blocks, "ASSIGNED", <<>>))
                Line(T, line) ==
                    LET parens == {i \in 1..Len(line) : line[i] = "("}
                        open == IndexOf(line, "(")
                        d == Units2Dimension(DropLast(Join(SliceFrom(line, open))),
                                             T.unit_registry)
                    IN IF T.err # NoError THEN T
                       ELSE IF parens = {}
                       THEN [T EXCEPT !.dimensions = DictSet(@, Join(line), None)]
                       ELSE IF Cardinality(parens) > 1
                       THEN [T EXCEPT !.err = "Pype9ImportError"]
                       ELSE IF d.err # NoError THEN [T EXCEPT !.err = d.err]
                       ELSE [T EXCEPT !.dimensions =
                                          DictSet(@, Join(Slice(line, 0, open - 1)),
                                                  d.dim)]
            IN ForEach(Line, [S EXCEPT !.blocks = DictDel(@, "ASSIGNED")], lines)
    IN Run("_extract_assigned_block", "_extract_procedure_and_function_blocks", after, FALSE)

\* _extract_procedure_and_function_blocks, for signatures `name(a, b)`
\* without units
ExtractProcedureAndFunctionBlocks ==
    LET S == self
        after ==
            LET Read(named) ==
                    [name \in {sig[1] : sig \in DOMAIN named} |->
                        LET sig == CHOOSE x \in DOMAIN named : x[1] = name
                        IN [args |-> SplitArgs(CallArgs(sig)), block |-> named[sig]]]
                functions == Pop(S.blocks, "FUNCTION", EmptyDict)
                procedures == Pop(S.blocks, "PROCEDURE", EmptyDict)
            IN IF \E sig \in DOMAIN functions \cup DOMAIN procedures :
                      ~CallMatches(sig)
               THEN [S EXCEPT !.err = "AttributeError"]
               ELSE [S EXCEPT
                        !.blocks = DictDel(DictDel(@, "FUNCTION"), "PROCEDURE"),
                        !.functions = DictUpdate(@, Read(functions)),
                        !.procedures = DictUpdate(@, Read(procedures))]
    IN Run("_extract_procedure_and_function_blocks", "_extract_parameter_and_constant_block", after, FALSE)

\* `abs((quantity - const_quantity) / const_quantity) < 1e-4` for some
\* in-built constant, for values that are written as the constant is or
\* differ from it in the first digits
IsConstant(value, units, registry) ==
    \E c \in DOMAIN InbuiltConstants :
        /\ value = InbuiltConstants[c][1]
        /\ Units2SI(units, registry).si
               = Units2SI(InbuiltConstants[c][2], registry).si

\* a token matched by [\d\.e-]+ that float() accepts
IsNumber(token) ==
    token \notin Punctuation
        /\ (Head(token) \in Digits
               \/ (Len(token) > 1 /\ Head(token) \in {"-", "."}
                      /\ Head(Tail(token)) \in Digits))

\* _extract_parameter_and_constant_block
ExtractParameterAndConstantBlock ==
    LET S == self
        after ==
            LET lines == IterateBlock(S.blocks["PARAMETER"]
                                          \o Pop(S.blocks, "CONSTANT", <<>>))
                NoValue(T, line) ==
                    IF ~(Len(line) = 4 /\ line[1] \notin Punctuation /\ line[2] = "("
                            /\ line[4] = ")")
                    THEN [T EXCEPT !.err = "AttributeError"]
                    ELSE IF line[1] \in {"celsius", "v"} THEN T
                    ELSE [T EXCEPT !.properties =
                                       DictSet(@, line[1],
                                               [value |-> "nan",
                                                units |-> SanitizeUnits(line[3])])]
                Valued(T, line) ==
                    LET name == Join(Slice(line, 0, IndexOf(line, "=") - 1))
                        rest == SliceFrom(line, IndexOf(line, "="))
                        has_units == Len(rest) >= 4 /\ rest[2] = "(" /\ rest[4] = ")"
                        units == IF has_units THEN SanitizeUnits(rest[3])
                                 ELSE "dimensionless"
                    IN IF rest = <<>> \/ ~IsNumber(rest[1])
                       THEN [T EXCEPT !.err = "AttributeError"]
                       ELSE IF units \notin DOMAIN T.unit_registry
                       THEN [T EXCEPT !.err = "LookupError"]
                       ELSE IF IsConstant(rest[1], units, T.unit_registry)
                       THEN [T EXCEPT !.constants = DictSet(@, name, units)]
                       ELSE [T EXCEPT !.properties =
                                          DictSet(@, name, [value |-> rest[1],
                                                            units |-> units])]
                Line(T, line) ==
                    IF T.err # NoError THEN T
                    ELSE IF AssignParts(line) = 1 THEN NoValue(T, line)
                    ELSE IF AssignParts(line) = 2 THEN Valued(T, line)
                    ELSE [T EXCEPT !.err = "Pype9ImportError"]
            IN \* self.blocks.pop('PARAMETER') has no default
               IF "PARAMETER" \notin DOMAIN S.blocks THEN [S EXCEPT !.err = "KeyError"]
               ELSE ForEach(Line, [S EXCEPT !.blocks = DictDel(DictDel(@, "PARAMETER"),
                            "CONSTANT")], lines)
    IN Run("_extract_parameter_and_constant_block", "_extract_initial_block", after, FALSE)

\* self._extract_stmts_block(block): subs is left out of the call, so the
\* dict of the def line is the one used and mutated
ExtractStmts(S, block) ==
    LET Returned(L) ==
            [stmts |-> L.statements,
             S |-> [L.me EXCEPT !.default_subs = L.subs, !.err = L.err]]
    IN Returned(ExtractStmtsBlock(block, S.default_subs, "", S))

\* _get_alias: the alias as (lhs, rhs), or the exception raised
GetAlias(lhs, rhs) ==
    LET brackets == {i \in 1..Len(lhs) : SubSeq(lhs, i, i) \in {"[", "]"}}
        first == CHOOSE i \in brackets : \A j \in brackets : i <= j
        name == IF brackets = {} THEN lhs
                ELSE SubSeq(lhs, 1, first - 1) \o "__index_"
                         \o SubSeq(lhs, first + 1, Len(lhs) - 1) \o "__"
        pw == GetPiecewise(name, rhs.v)
    IN IF brackets # {} /\ ~(Cardinality(brackets) = 2 /\ Len(lhs) \in brackets)
       THEN [err |-> "AssertionError", lhs |-> lhs, rhs |-> rhs]
       ELSE IF rhs.k = "args"
       THEN [err |-> "ValueError", lhs |-> name, rhs |-> rhs]
       ELSE IF rhs.k = "pw"
       THEN [err |-> pw.err, lhs |-> name, rhs |-> Pw(pw.pieces)]
       ELSE [err |-> NoError, lhs |-> name,
             rhs |-> Str(SubstituteFunctions(rhs.v))]

\* _set_alias
SetAlias(S, lhs, rhs) ==
    LET alias == GetAlias(lhs, rhs) IN
    IF alias.err # NoError THEN [S EXCEPT !.err = alias.err]
    ELSE [S EXCEPT !.aliases = DictSet(@, alias.lhs, alias.rhs)]

\* _escape_piecewise: the importer and the returned expression
EscapePiecewise(S, lhs, rhs) ==
    IF rhs.k = "pw"
    THEN [S |-> SetAlias(S, lhs \o "__piecewise", rhs),
          val |-> <<lhs \o "__piecewise">>]
    ELSE IF rhs.k = "args" THEN [S |-> [S EXCEPT !.err = "TypeError"], val |-> <<>>]
    ELSE [S |-> S, val |-> SubstituteFunctions(rhs.v)]

\* _extract_initial_block
ExtractInitialBlock ==
    LET S == self
        after ==
            LET lines == IterateBlock(Pop(S.blocks, "INITIAL", <<>>))
                solves == {i \in 1..Len(lines) : StartsWith(lines[i][1], "SOLVE")}
                RECURSIVE Reduced(_)
                Reduced(i) ==
                    IF i > Len(lines) THEN <<>>
                    ELSE (IF i \in solves THEN <<>> ELSE <<lines[i]>>) \o Reduced(i + 1)
                Update(r) ==
                    IF r.S.err # NoError THEN r.S
                    ELSE [r.S EXCEPT !.init_statements = DictUpdate(@, r.stmts)]
                T == [S EXCEPT
                         !.blocks = DictDel(@, "INITIAL"),
                         !.initial_solve_methods =
                             DictUpdate(@, [n \in {lines[i][2] : i \in solves} |->
                                 LET l == lines[CHOOSE i \in solves :
                                                    lines[i][2] = n]
                                 IN IF Len(l) >= 4 /\ l[3] = "STEADYSTATE"
                                    THEN l[4] ELSE None])]
            IN IF \E i \in solves : ~(lines[i][1] = "SOLVE" /\ Len(lines[i]) >= 2
                                         /\ lines[i][2] \notin Punctuation)
               THEN [S EXCEPT !.blocks = DictDel(@, "INITIAL"),
                              !.err = "Pype9ImportError"]
               ELSE Update(ExtractStmts(T, Reduced(1)))
    IN Run("_extract_initial_block", "_extract_state_block", after, FALSE)

\* _extract_state_block
ExtractStateBlock ==
    LET S == self
        after ==
            LET block0 == Pop(S.blocks, "STATE", <<>>)
                block == IF Len(block0) = 1 /\ ~Contains(block0[1], "(")
                               /\ ~Contains(block0[1], "FROM")
                         THEN [i \in 1..Len(block0[1]) |-> <<block0[1][i]>>]
                         ELSE block0
                lines == IterateBlock(block)
                Line(T, line) ==
                    LET var == line[1]
                        has_units == Len(line) >= 4 /\ line[2] = "(" /\ line[4] = ")"
                        d == Units2Dimension(line[3], T.unit_registry)
                        initial == T.init_statements[var]
                        dimension ==
                            IF has_units THEN d.dim
                            ELSE IF var \in DOMAIN T.init_statements
                                    /\ Join(initial.v) \in DOMAIN T.dimensions
                            THEN T.dimensions[Join(initial.v)]
                            ELSE None
                    IN IF T.err # NoError THEN T
                       ELSE IF var \in Punctuation THEN [T EXCEPT !.err = "AttributeError"]
                       ELSE IF has_units /\ d.err # NoError THEN [T EXCEPT !.err = d.err]
                       ELSE IF ~has_units /\ var \in DOMAIN T.init_statements
                                  /\ initial.k # "str"
                       THEN [T EXCEPT !.init_statements = DictDel(@, var),
                                      !.err = "TypeError"]
                       ELSE [T EXCEPT
                                !.init_statements =
                                    IF has_units THEN @ ELSE DictDel(@, var),
                                !.dimensions = DictSet(@, var, dimension),
                                !.state_variables =
                                    DictSet(@, var, StateVariable(dimension))]
            IN ForEach(Line, [S EXCEPT !.blocks = DictDel(@, "STATE")], lines)
    IN Run("_extract_state_block", "_create_state_variables", after, FALSE)

\* int(s) succeeds
IsInt(s) == \E n \in 0..99 : ToString(n) = s \/ "-" \o ToString(n) = s

\* int(s)
ToInt(s) ==
    IF \E n \in 0..99 : ToString(n) = s
    THEN CHOOSE n \in 0..99 : ToString(n) = s
    ELSE 0 - (CHOOSE n \in 0..99 : "-" \o ToString(n) = s)

\* _create_state_variables
CreateStateVariables ==
    LET S == self
        after ==
            LET keys == Keys(S.init_statements)
                Item(T, lhs) ==
                    LET rhs == T.init_statements[lhs]
                        T1 == IF lhs \in DOMAIN T.state_variables THEN T
                              ELSE [T EXCEPT !.state_variables =
                                       DictSet(@, lhs, StateVariable(T.dimensions[lhs]))]
                        e == EscapePiecewise(T1, lhs, rhs)
                    IN IF T.err # NoError THEN T
                       ELSE IF StartsWith(lhs, "__INBUILT_PROC_net_send")
                       THEN IF T.initial_flag # None THEN T
                            ELSE IF Len(rhs.v) < 2 THEN [T EXCEPT !.err = "IndexError"]
                            ELSE IF ~IsInt(Join(rhs.v[2]))
                            THEN [T EXCEPT !.err = "ValueError"]
                            ELSE [T EXCEPT !.initial_flag = Join(rhs.v[2])]
                       ELSE IF lhs \notin DOMAIN T.state_variables
                                  /\ lhs \notin DOMAIN T.dimensions
                       THEN T
                       ELSE IF e.S.err # NoError THEN e.S
                       ELSE [e.S EXCEPT !.initial_state = DictSet(@, lhs, e.val)]
                Pointers(T) ==
                    LET declared == DOMAIN T.parameters \cup DOMAIN T.analog_ports
                                       \cup DOMAIN T.state_variables
                                       \cup DOMAIN T.aliases
                    IN IF T.err # NoError THEN T
                       ELSE IF \E name \in T.pointers \ declared :
                                  name \notin DOMAIN T.dimensions
                       THEN [T EXCEPT !.err = "KeyError"]
                       ELSE [T EXCEPT !.state_variables =
                                DictUpdate(@, [name \in T.pointers \ declared |->
                                                  StateVariable(T.dimensions[name])])]
            IN Pointers(ForEach(Item, S, keys))
    IN Run("_create_state_variables", "_extract_linear_block", after, FALSE)

\* _extract_linear_block, for a file without LINEAR blocks
ExtractLinearBlock ==
    LET S == self
        after ==
            [S EXCEPT !.blocks = DictDel(@, "LINEAR")]
    IN Run("_extract_linear_block", "_extract_kinetic_block", after, FALSE)

\* _extract_kinetic_block, for a file without KINETIC blocks
ExtractKineticBlock ==
    LET S == self
        after ==
            [S EXCEPT !.blocks = DictDel(@, "KINETIC")]
    IN Run("_extract_kinetic_block", "_extract_derivative_block", after, FALSE)

\* _extract_derivative_block
ExtractDerivativeBlock ==
    LET S == self
        after ==
            LET named_blocks == Pop(S.blocks, "DERIVATIVE", EmptyDict)
                names == Keys(named_blocks)
                Stmt(R, stmts, lhs) ==
                    LET T == R.S
                        e == EscapePiecewise(T, lhs, stmts[lhs])
                    IN IF T.err # NoError THEN R
                       ELSE IF EndsWith(lhs, "'")
                       THEN IF DropLast(lhs) \notin DOMAIN T.state_variables
                            THEN [R EXCEPT !.S.err = "Pype9ImportError"]
                            ELSE [S |-> e.S,
                                  tds |-> DictSet(R.tds, DropLast(lhs), e.val)]
                       ELSE [R EXCEPT !.S = SetAlias(T, lhs, stmts[lhs])]
                Part(name, R) ==
                    IF R.S.err # NoError THEN R.S
                    ELSE [R.S EXCEPT !.regime_parts = Append(@, <<name, R.tds>>)]
                Stmts(name, r) ==
                    LET Each(R, lhs) == Stmt(R, r.stmts, lhs) IN
                    Part(name, ForEach(Each, [S |-> r.S, tds |-> EmptyDict],
                                       Keys(r.stmts)))
                Named(T, name) ==
                    IF T.err # NoError THEN T
                    ELSE Stmts(name, ExtractStmts(T, named_blocks[name]))
            IN ForEach(Named, [S EXCEPT !.blocks = DictDel(@, "DERIVATIVE")], names)
    IN Run("_extract_derivative_block", "_extract_breakpoint_block", after, FALSE)

\* _extract_breakpoint_block
ExtractBreakpointBlock ==
    LET S == self
        after ==
            LET lines == IterateBlock(Pop(S.blocks, "BREAKPOINT", <<>>))
                Line(R, line) ==
                    IF R.S.err # NoError THEN R
                    ELSE IF ~StartsWith(line[1], "SOLVE")
                    THEN [R EXCEPT !.reduced_block = Append(@, line)]
                    ELSE IF ~(line[1] = "SOLVE" /\ Len(line) >= 4
                                 /\ line[2] \notin Punctuation /\ line[3] = "METHOD"
                                 /\ line[4] \notin Punctuation)
                    THEN [R EXCEPT !.S.err = "Pype9ImportError"]
                    ELSE [R EXCEPT !.S.breakpoint_solve_methods =
                                       DictSet(@, line[2], line[4])]
                Alias(T, lhs, alias) ==
                    IF T.err # NoError THEN T
                    ELSE IF alias.err # NoError THEN [T EXCEPT !.err = alias.err]
                    ELSE [T EXCEPT !.breakpoint_aliases = DictSet(@, lhs, alias.rhs),
                                   !.aliases = DictSet(@, lhs, alias.rhs)]
                Aliases(r) ==
                    LET Each(T, lhs) == Alias(T, lhs, GetAlias(lhs, r.stmts[lhs]))
                    IN ForEach(Each, r.S, Keys(r.stmts))
                Solved(R) ==
                    IF R.S.err # NoError THEN R.S
                    ELSE Aliases(ExtractStmts(R.S, R.reduced_block))
            IN Solved(ForEach(Line, [S |-> [S EXCEPT !.blocks = DictDel(@, "BREAKPOINT")],
                            reduced_block |-> <<>>], lines))
    IN Run("_extract_breakpoint_block", "_extract_netreceive_block", after, TRUE)

\* _transition_flag: the digits of `__TRANSITION_(\d+)_`, or None
TransitionFlag(lhs) ==
    LET rest == SubSeq(lhs, 14, Len(lhs))
        digits == {n \in 1..Len(rest) :
                      \A i \in 1..n : SubSeq(rest, i, i) \in Digits}
        n == Cardinality(digits)
    IN IF StartsWith(lhs, "__TRANSITION_") /\ n >= 1 /\ n < Len(rest)
          /\ SubSeq(rest, n + 1, n + 1) = "_"
       THEN SubSeq(rest, 1, n) ELSE None

\* the free symbols of an expression: its names, but for the functions
\* it calls
Symbols(expr) ==
    {expr[i] : i \in {n \in 1..Len(expr) :
        /\ expr[n] \notin Punctuation \cup {"True"}
        /\ Head(expr[n]) \notin Digits \cup {"."}
        /\ ~(n < Len(expr) /\ expr[n + 1] = "(")}}

\* rhs_symbols of the right-hand side of a statement
ValSymbols(val) ==
    IF val.k = "str" THEN Symbols(val.v)
    ELSE IF val.k = "pw"
    THEN UNION {Symbols(val.v[i][1]) \cup Symbols(val.v[i][2]) :
                    i \in 1..Len(val.v)}
    ELSE {}

\* flags as int() reads them, in ascending order
RECURSIVE SortFlags(_)
SortFlags(flags) ==
    IF flags = {} THEN <<>>
    ELSE LET least == CHOOSE x \in flags :
                          \A y \in flags : ToInt(x) <= ToInt(y)
         IN <<least>> \o SortFlags(flags \ {least})

\* None where a NetReceive is expected
NoReceive ==
    [target |-> None, delay |-> None, args |-> <<>>, assignments |-> EmptyDict,
     aliases |-> EmptyDict, output_events |-> {}]

\* _extract_netreceive_block
ExtractNetreceiveBlock ==
    LET S == self
        after ==
            LET arg_block == S.blocks["NET_RECEIVE"]
                arg_strs == SplitArgs(arg_block[1])
                Dim(a) == IF Len(a) >= 4 /\ a[2] = "(" /\ a[4] = ")"
                          THEN Units2Dimension(a[3], S.unit_registry)
                          ELSE [err |-> NoError, dim |-> "dimensionless"]
                all_args == [i \in 1..Len(arg_strs) |->
                                <<arg_strs[i][1], Dim(arg_strs[i]).dim>>]
                S0 == [S EXCEPT !.blocks = DictDel(@, "NET_RECEIVE")]
                Statement(stmts, flag, R, key) ==
                    LET rhs == stmts[key]
                        lhs == IF StartsWith(key, "__TRANSITION_")
                               THEN SubSeq(key, 15 + Len(flag), Len(key))
                               ELSE key
                        pw == GetPiecewise(lhs, rhs.v)
                    IN IF R.S.err # NoError THEN R
                       ELSE IF StartsWith(lhs, "__STATE_ASSIGNMENT_")
                       THEN [R EXCEPT !.assignments =
                                DictSet(@, SubSeq(lhs, 20, Len(lhs)), rhs)]
                       ELSE IF StartsWith(lhs, "__INBUILT_PROC_net_send")
                       THEN IF ~IsInt(Join(rhs.v[2]))
                            THEN [R EXCEPT !.S.err = "ValueError"]
                            ELSE [R EXCEPT !.target = ToString(ToInt(Join(rhs.v[2]))),
                                           !.delay = Join(rhs.v[1])]
                       ELSE IF StartsWith(lhs, "__INBUILT_PROC_net_event")
                       THEN [R EXCEPT !.output_events = {"spike"}]
                       ELSE IF StartsWith(lhs, "__INBUILT_PROC_WATCH")
                       THEN IF ~IsInt(Join(rhs.v[2]))
                            THEN [R EXCEPT !.S.err = "ValueError"]
                            ELSE LET f == ToString(ToInt(Join(rhs.v[2]))) IN
                                 [R EXCEPT !.S.triggers =
                                     DictSet(@, f, Append(Pop(R.S.triggers, f, <<>>),
                                                          rhs.v[1]))]
                       ELSE IF lhs \in DOMAIN R.S.state_variables \/ lhs = "v"
                       THEN IF rhs.k = "args" THEN [R EXCEPT !.S.err = "ValueError"]
                            ELSE IF rhs.k = "pw" /\ pw.err # NoError
                            THEN [R EXCEPT !.S.err = pw.err]
                            ELSE [R EXCEPT !.assignments =
                                     DictSet(@, lhs, IF rhs.k = "pw" THEN Pw(pw.pieces)
                                                     ELSE rhs)]
                       ELSE [R EXCEPT !.S = SetAlias(R.S, lhs, rhs)]
                Group(stmts, R, flag) ==
                    LET lhss == Keys([k \in {x \in DOMAIN stmts :
                                                TransitionFlag(x) = flag} |-> TRUE])
                        Each(G, key) == Statement(stmts, flag, G, key)
                        Receive(G) ==
                            LET used == UNION {ValSymbols(G.assignments[a]) :
                                                   a \in DOMAIN G.assignments}
                                timed == G.target # "-1"
                                net_receive ==
                                    [target |-> G.target, delay |-> G.delay,
                                     args |-> SelectSeq(all_args,
                                                        LAMBDA a : a[1] \in used),
                                     assignments |->
                                         IF timed
                                         THEN DictSet(G.assignments, "last_transition",
                                                      Str(<<"t">>))
                                         ELSE G.assignments,
                                     aliases |-> EmptyDict,
                                     output_events |-> G.output_events]
                                T == IF timed /\ "last_transition"
                                                    \notin DOMAIN G.S.state_variables
                                     THEN [G.S EXCEPT !.state_variables =
                                              DictSet(@, "last_transition", "time")]
                                     ELSE G.S
                            IN IF G.S.err # NoError THEN [R EXCEPT !.S = G.S]
                               ELSE IF flag = None
                               THEN IF timed
                                    THEN [R EXCEPT !.S = [T EXCEPT !.err = "AssertionError"]]
                                    ELSE [S |-> T, common |-> net_receive]
                               ELSE [R EXCEPT !.S = [T EXCEPT !.net_receives =
                                        DictSet(@, ToString(ToInt(flag)), net_receive)]]
                    IN IF R.S.err # NoError THEN R
                       ELSE Receive(ForEach(Each,
                                            [S |-> R.S, assignments |-> EmptyDict,
                                             output_events |-> {}, target |-> "-1",
                                             delay |-> None],
                                            lhss))
                Handlers(r) ==
                    LET all_flags == {TransitionFlag(x) : x \in DOMAIN r.stmts}
                        flags == (IF None \in all_flags THEN <<None>> ELSE <<>>)
                                     \o SortFlags(all_flags \ {None})
                        Each(R, flag) == Group(r.stmts, R, flag)
                        Merge(receive, common) ==
                            [receive EXCEPT
                                !.assignments = DictUpdate(@, common.assignments),
                                !.output_events = @ \cup common.output_events]
                        Common(R) ==
                            IF R.S.err # NoError THEN R.S
                            ELSE IF DOMAIN R.S.net_receives = {}
                            THEN [R.S EXCEPT !.net_receives = DictSet(@, "0", R.common)]
                            ELSE IF R.common = NoReceive THEN R.S
                            ELSE [R.S EXCEPT !.net_receives =
                                     [fl \in DOMAIN @ |-> Merge(@[fl], R.common)]]
                    IN Common(ForEach(Each, [S |-> r.S, common |-> NoReceive], flags))
            IN IF "NET_RECEIVE" \notin DOMAIN S.blocks THEN S
               ELSE IF \E i \in 1..Len(arg_strs) :
                           arg_strs[i] = <<>> \/ arg_strs[i][1] \in Punctuation
               THEN [S0 EXCEPT !.err = "AttributeError"]
               ELSE IF \E i \in 1..Len(arg_strs) : Dim(arg_strs[i]).err # NoError
               THEN [S0 EXCEPT !.err = "LookupError"]
               ELSE Handlers(ExtractStmts(S0, arg_block[2]))
    IN Run("_extract_netreceive_block", "_extract_independent_block", after, TRUE)

\* _extract_independent_block without the assert that follows it
ExtractIndependentBlockUnchecked ==
    LET S == self
        after == [S EXCEPT !.blocks = DictDel(S.blocks, "INDEPENDENT")]
    IN Run("_extract_independent_block", "_create_parameters_and_analog_ports", after, FALSE)

\* _extract_independent_block, and the assert that follows it in __init__
ExtractIndependentBlock ==
    LET S == self
        after ==
            LET blocks == DictDel(S.blocks, "INDEPENDENT") IN
            [S EXCEPT !.blocks = blocks,
                      !.err = IF DOMAIN blocks # {} THEN "AssertionError" ELSE NoError]
    IN Run("_extract_independent_block", "_create_parameters_and_analog_ports", after, FALSE)

\* _create_parameters_and_analog_ports
CreateParametersAndAnalogPorts ==
    LET S == self
        after ==
            LET Concentration(n) == EndsWith(n, "o") \/ EndsWith(n, "i")
                Free(T, n) == n \notin DOMAIN T.properties
                                 \/ T.properties[n].value = "nan"
                Port(T, n, mode, dimension) ==
                    [T EXCEPT !.analog_ports =
                        DictSet(@, n, [mode |-> mode, dimension |-> dimension])]
                Read(T, n) ==
                    IF T.err # NoError \/ ~Free(T, n) THEN T
                    ELSE IF StartsWith(n, "e") THEN Port(T, n, "recv", "voltage")
                    ELSE IF StartsWith(n, "i") THEN Port(T, n, "recv", "currentDensity")
                    ELSE IF Concentration(n) THEN Port(T, n, "recv", "concentration")
                    ELSE [T EXCEPT !.err = "AssertionError"]
                Write(T, n) ==
                    IF T.err # NoError THEN T
                    ELSE IF StartsWith(n, "i")
                    THEN Port(T, n, "send", IF T.model_type = "mechanism"
                                            THEN "currentDensity" ELSE "current")
                    ELSE IF Concentration(n) THEN Port(T, n, "send", "concentration")
                    ELSE [T EXCEPT !.err = "AssertionError"]
                Ion(T, name) ==
                    ForEach(Write, ForEach(Read, T, T.used_ions[name].read),
                            T.used_ions[name].write)
                Property(T, name) ==
                    LET d == Units2Dimension(T.properties[name].units, T.unit_registry)
                    IN IF T.err # NoError \/ name \in DOMAIN T.analog_ports THEN T
                       ELSE IF d.err # NoError THEN [T EXCEPT !.err = d.err]
                       ELSE [T EXCEPT !.parameters = DictSet(@, name, d.dim)]
                Properties(T) == ForEach(Property, T, Keys(T.properties))
                Pointers(Q) ==
                    LET pointers == Q.pointers
                                       \ (DOMAIN Q.parameters \cup DOMAIN Q.analog_ports)
                    IN IF \E n \in pointers : n \notin DOMAIN Q.dimensions
                       THEN [Q EXCEPT !.err = "KeyError"]
                       ELSE [Q EXCEPT !.analog_ports =
                                DictUpdate(@, [n \in pointers |->
                                    [mode |-> "send", dimension |-> Q.dimensions[n]]])]
                RangeVars(P) ==
                    LET range_vars ==
                            P.range_vars
                                \ (DOMAIN P.parameters \cup DOMAIN P.analog_ports
                                      \cup DOMAIN P.state_variables
                                      \cup DOMAIN P.aliases)
                    IN IF P.err # NoError THEN P
                       ELSE IF \E n \in range_vars : n \notin DOMAIN P.dimensions
                       THEN [P EXCEPT !.err = "KeyError"]
                       ELSE Pointers([P EXCEPT !.analog_ports =
                                DictUpdate(@, [n \in range_vars |->
                                    [mode |-> "recv",
                                     dimension |-> P.dimensions[n]]])])
            IN RangeVars(Properties(ForEach(Ion, S, Keys(S.used_ions))))
    IN Run("_create_parameters_and_analog_ports", "_create_regimes", after, FALSE)

\* one regime for every handler that schedules a flag
RegimeNameShared(flag, regime_flags) ==
    IF flag = "-1" THEN "regime_0" ELSE "regime_1"

\* a regime named after the number of its flag, not after its rank
RegimeNameOfFlag(flag, regime_flags) ==
    "regime_" \o ToString(ToInt(flag) + 1)

\* 'regime_{}'.format(regime_ids[flag]): the rank of the flag among the
\* regime flags
RegimeName(flag, regime_flags) ==
    "regime_" \o ToString(Cardinality({f \in regime_flags :
                                          ToInt(f) < ToInt(flag)}))

\* _create_regimes
CreateRegimes ==
    LET S == self
        after ==
            LET time_derivatives == IF S.regime_parts = <<>> THEN EmptyDict
                                    ELSE S.regime_parts[1][2]
                initial == S.net_receives[S.initial_flag]
                \* lines 417-433: the handler of the initial flag
                S1 == IF S.initial_flag = None THEN S
                      ELSE IF S.initial_flag \in DOMAIN S.net_receives
                      THEN IF initial = NoReceive
                           THEN [S EXCEPT !.err = "TypeError"]
                           ELSE [S EXCEPT
                                    !.net_receives = DictDel(@, S.initial_flag),
                                    !.err = IF initial.target = "-1"
                                               /\ initial.delay = None
                                               /\ initial.output_events = {}
                                               /\ initial.args = <<>>
                                            THEN NoError ELSE "AssertionError",
                                    !.init_statements =
                                        IF initial.target = "-1"
                                           /\ initial.delay = None
                                           /\ initial.output_events = {}
                                           /\ initial.args = <<>>
                                        THEN DictUpdate(@, initial.assignments)
                                        ELSE @]
                      ELSE IF S.warnings # <<>> THEN S
                      ELSE [S EXCEPT !.err = "KeyError"]
                receives == S1.net_receives
                flags == SortFlags(DOMAIN receives)
                regime_flags == {"-1"} \cup {f \in DOMAIN receives :
                                                receives[f].delay # None}
                origins(flag) ==
                    SelectSeq(flags, LAMBDA f : receives[f].target = flag)
                Transition(kind, trigger, flag) ==
                    [kind |-> kind, trigger |-> trigger,
                     state_assignments |-> receives[flag].assignments,
                     output_events |-> receives[flag].output_events,
                     target_regime |-> IF receives[flag].delay # None
                                       THEN RegimeName(flag, regime_flags)
                                       ELSE "regime_0"]
                Receive(R, flag) ==
                    LET receive == receives[flag]
                        from == origins(flag)
                        watches == Pop(R.S.triggers, flag, <<>>)
                        rt1 == [f \in regime_flags |->
                                   R.rt[f] \o
                                   (IF \E i \in 1..Len(from) : from[i] = f
                                    THEN <<Transition("OnCondition",
                                               <<"t", ">", "(", "last_transition", "+",
                                                 receives[f].delay, ")">>, flag)>>
                                    ELSE <<>>)]
                        rt2 == [rt1 EXCEPT !["-1"] =
                                   @ \o [i \in 1..Len(watches) |->
                                            Transition("OnCondition", watches[i],
                                                       flag)]
                                     \o (IF flag = "0"
                                         THEN <<Transition("OnEvent",
                                                    <<"incoming_spike">>, flag)>>
                                         ELSE <<>>)]
                    IN [S |-> [R.S EXCEPT
                                  !.analog_ports =
                                      DictUpdate([a \in {receive.args[i][1] :
                                                            i \in 1..Len(receive.args)}
                                          |-> [mode |-> "recv",
                                               dimension |->
                                                   receive.args[
                                                       CHOOSE i \in 1..Len(receive.args)
                                                           : receive.args[i][1] = a][2]]],
                                                 @),
                                  !.event_ports =
                                      IF flag = "0" THEN @ \cup {"incoming_spike"}
                                      ELSE @],
                        rt |-> rt2]
                Regimes(R) ==
                    [R.S EXCEPT
                        !.default_regime = "regime_0",
                        !.regimes =
                            [name \in {RegimeName(fl, regime_flags) :
                                          fl \in regime_flags} |->
                                [time_derivatives |-> time_derivatives,
                                 transitions |->
                                     R.rt[CHOOSE fl \in regime_flags :
                                              RegimeName(fl, regime_flags) = name]]]]
            IN IF Len(S.regime_parts) > 1 THEN [S EXCEPT !.err = "NotImplementedError"]
               ELSE IF S.initial_flag \in DOMAIN S.triggers
               THEN [S EXCEPT !.err = "AssertionError"]
               ELSE IF S1.err # NoError THEN S1
               ELSE IF \E fl \in DOMAIN receives : receives[fl] = NoReceive
               THEN [S1 EXCEPT !.err = "AttributeError"]
               ELSE Regimes(ForEach(Receive,
                                    [S |-> S1, rt |-> [fl \in regime_flags |-> <<>>]],
                                    flags))
    IN Run("_create_regimes", "_add_reserved_variables", after, FALSE)

\* all_rhs_symbols
AllRhsSymbols(S) ==
    LET OfTransition(tr) ==
            (IF tr.kind = "OnCondition" THEN Symbols(tr.trigger) ELSE {})
                \cup UNION {ValSymbols(tr.state_assignments[a]) :
                                a \in DOMAIN tr.state_assignments}
        OfRegime(reg) ==
            UNION {Symbols(reg.time_derivatives[v]) :
                       v \in DOMAIN reg.time_derivatives}
                \cup UNION {OfTransition(reg.transitions[i]) :
                                i \in 1..Len(reg.transitions)}
    IN UNION {OfRegime(S.regimes[r]) : r \in DOMAIN S.regimes}
           \cup UNION {ValSymbols(S.aliases[a]) : a \in DOMAIN S.aliases}

\* all_assigned_states
AllAssignedStates(S) ==
    UNION {UNION {DOMAIN S.regimes[r].transitions[i].state_assignments :
                      i \in 1..Len(S.regimes[r].transitions)} :
               r \in DOMAIN S.regimes}

\* _add_reserved_variables
AddReservedVariables ==
    LET S == self
        after ==
            LET RECURSIVE Minus(_)
                \* `dvdt -= sympy.Symbol(current)` for every written ion variable
                Minus(currents) ==
                    IF currents = <<>> THEN <<>>
                    ELSE <<"-", currents[1]>> \o Minus(Tail(currents))
                RECURSIVE Written(_)
                Written(ions) ==
                    IF ions = <<>> THEN <<>>
                    ELSE S.used_ions[ions[1]].write \o Written(Tail(ions))
                dvdt == <<"(", "iExt">> \o Minus(Written(Keys(S.used_ions)))
                            \o <<")", "/", "cm">>
                S1 == IF "v" \in AllAssignedStates(S) \/ S.kwargs.add_membrane_voltage
                      THEN [S EXCEPT
                               !.kwargs.add_membrane_voltage =
                                   IF "v" \in AllAssignedStates(S) THEN @ ELSE FALSE,
                               !.state_variables = DictSet(@, "v", "voltage"),
                               !.parameters = DictSet(@, "cm", "capacitance"),
                               !.analog_ports =
                                   DictSet(@, "iExt", [mode |-> "reduce",
                                                       dimension |-> "current"]),
                               !.properties =
                                   DictSet(@, "cm", [value |-> "1.0", units |-> "uF"]),
                               !.regimes[S.default_regime].time_derivatives =
                                   DictSet(@, "v", dvdt)]
                      ELSE IF "v" \in AllRhsSymbols(S)
                      THEN [S EXCEPT !.analog_ports =
                               DictSet(@, "v", [mode |-> "recv",
                                                dimension |-> "voltage"])]
                      ELSE S
                S2 == IF "celsius" \in AllRhsSymbols(S1)
                         /\ "celsius" \notin DOMAIN S1.parameters
                      THEN [S1 EXCEPT !.analog_ports =
                               DictSet(@, "celsius", [mode |-> "recv",
                                                      dimension |-> "temperature"])]
                      ELSE S1
            IN IF "diam" \in AllRhsSymbols(S2) /\ "diam" \notin DOMAIN S2.parameters
               THEN [S2 EXCEPT !.parameters = DictSet(@, "diam", "length")]
               ELSE S2
    IN Run("_add_reserved_variables", "_clean_init_parameters", after, FALSE)

\* _clean_init_parameters
CleanInitParameters ==
    LET S == self
        after ==
            LET unused == DOMAIN S.parameters \ AllRhsSymbols(S) IN
            IF \E name \in unused : name \notin DOMAIN S.properties
            THEN [S EXCEPT !.err = "KeyError"]
            ELSE [S EXCEPT
                     !.parameters = [n \in DOMAIN @ \ unused |-> @[n]],
                     !.properties = [n \in DOMAIN @ \ unused |-> @[n]],
                     !.init_statements =
                         DictUpdate(@, [n \in unused |->
                                           Str(<<S.properties[n].value>>)])]
    IN Run("_clean_init_parameters", "returned", after, FALSE)

\* NMODLImporter(fname, **kwargs) is called: the file is read, and
\* _read_blocks comes first
Init ==
    \E file \in Files, add_membrane_voltage \in BOOLEAN :
        /\ arg = [fname |-> file,
                  kwargs |-> [add_membrane_voltage |-> add_membrane_voltage]]
        /\ src = Contents(file)
        /\ self = NewImporter(arg.kwargs)
        /\ pc = "_read_blocks"
        /\ ret = <<>>
        /\ step = "import"

Next ==
    \/ ReadBlocks
    \/ ExtractDefines
    \/ ExtractNeuronBlock
    \/ ExtractUnitsBlock
    \/ ExtractAssignedBlock
    \/ ExtractProcedureAndFunctionBlocks
    \/ ExtractParameterAndConstantBlock
    \/ ExtractInitialBlock
    \/ ExtractStateBlock
    \/ CreateStateVariables
    \/ ExtractLinearBlock
    \/ ExtractKineticBlock
    \/ ExtractDerivativeBlock
    \/ ExtractBreakpointBlock
    \/ ExtractNetreceiveBlock
    \/ ExtractIndependentBlock
    \/ CreateParametersAndAnalogPorts
    \/ CreateRegimes
    \/ AddReservedVariables
    \/ CleanInitParameters

Spec == Init /\ [][Next]_vars

(***************************************************************************)
(* Properties of the import                                                *)
(***************************************************************************)
\* the import is over: the constructor has returned or has raised
Terminal == step = "import" /\ pc \in {"returned", "raised"}

\* the exception raised last
Last == ret[Len(ret)]

\* the stages __init__ calls in a try statement
Recoverable == {"_extract_breakpoint_block", "_extract_netreceive_block"}

\* the stages __init__ calls after the check that no block is left
AfterCheck ==
    {"_create_parameters_and_analog_ports", "_create_regimes",
     "_add_reserved_variables", "_clean_init_parameters"}

\* the extraction at `stage` has raised an import error
FailedAt(stage) ==
    /\ step = "import"
    /\ \E i \in 1..Len(ret) :
           ret[i].stage = stage /\ ret[i].err = "Pype9ImportError"

\* the file has a top-level block that no extractor pops
HasStrayBlock == step = "import" /\ arg.fname.extra = "stray"

\* C1, as stated: an import that returns has an empty block table, and a
\* file with a top-level block of an unknown name makes the import fail
\* with the consistency error (the AssertionError of `assert not
\* self.blocks`).
C1_StrayBlockIsConsistencyError ==
    /\ (step = "import" /\ pc = "returned") => DOMAIN self.blocks = {}
    /\ (HasStrayBlock /\ Terminal)
           => (pc = "raised" /\ Last.err = "AssertionError")

\* C1, amended: an import that returns has an empty block table, and a
\* file with a top-level block of an unknown name never returns an
\* importer: the import fails, with the consistency error when it gets as
\* far as the check, and otherwise with the error of the earlier stage
\* that has ended it.
C1_StrayBlockNeverReturns ==
    /\ (step = "import" /\ pc = "returned") => DOMAIN self.blocks = {}
    /\ (HasStrayBlock /\ Terminal)
           => /\ pc = "raised"
              /\ Last.stage \notin AfterCheck
              /\ (Last.stage = "_extract_independent_block")
                     => (Last.err = "AssertionError")

\* C1 witness: a file with a stray block has been imported up to the
\* check, which has raised the consistency error
C1_Witness ==
    /\ HasStrayBlock
    /\ pc = "raised"
    /\ Last.stage = "_extract_independent_block"
    /\ Last.err = "AssertionError"
    /\ "FOO" \in DOMAIN self.blocks

\* nothing of the BREAKPOINT block is recorded
NoBreakpointAlias ==
    /\ self.breakpoint_aliases = EmptyDict
    /\ "i" \notin DOMAIN self.aliases

\* nothing of the NET_RECEIVE block is recorded
NoNetReceive ==
    /\ self.net_receives = EmptyDict
    /\ self.triggers = EmptyDict
    /\ \A r \in DOMAIN self.regimes : self.regimes[r].transitions = <<>>

\* an import error of a stage that is not called in a try statement is
\* the error the import ends with
OtherImportErrorAborts ==
    step = "import" =>
        \A i \in 1..Len(ret) :
            (ret[i].err = "Pype9ImportError" /\ ret[i].stage \notin Recoverable)
                => (pc = "raised" /\ i = Len(ret))

\* C2, as stated: when the BREAKPOINT (resp. NET_RECEIVE) extraction raises
\* an import error the import goes through all remaining stages and
\* returns, with no alias of the BREAKPOINT block (resp. no handler and no
\* transition of the NET_RECEIVE block) recorded; an import error of any
\* other extractor aborts the import.
C2_RecoveredImportReturns ==
    /\ \A stage \in Recoverable :
           (FailedAt(stage) /\ Terminal) => pc = "returned"
    /\ FailedAt("_extract_breakpoint_block") => NoBreakpointAlias
    /\ FailedAt("_extract_netreceive_block") => NoNetReceive
    /\ OtherImportErrorAborts

\* C2, amended: when the BREAKPOINT (resp. NET_RECEIVE) extraction raises
\* an import error the import goes on with the remaining stages, and it
\* returns unless one of them fails; no alias of the BREAKPOINT block
\* (resp. no handler and no transition of the NET_RECEIVE block) is
\* recorded; an import error of any other extractor aborts the import.
C2_RecoveredImportGoesOn ==
    /\ \A stage \in Recoverable :
           FailedAt(stage) =>
               /\ pc # stage
               /\ pc = "raised" =>
                      /\ Last.stage # stage
                      /\ Last.stage \in Recoverable
                             => Last.err # "Pype9ImportError"
    /\ FailedAt("_extract_breakpoint_block") => NoBreakpointAlias
    /\ FailedAt("_extract_netreceive_block") => NoNetReceive
    /\ OtherImportErrorAborts

\* C2 witness: both extractions have raised an import error and the
\* import has returned
C2_Witness ==
    /\ FailedAt("_extract_breakpoint_block")
    /\ FailedAt("_extract_netreceive_block")
    /\ pc = "returned"

\* the warnings of the extractions that have failed, in the order the
\* blocks are processed in
ExpectedWarnings ==
    (IF FailedAt("_extract_breakpoint_block")
     THEN <<"Could not import BREAKPOINT block">> ELSE <<>>)
        \o (IF FailedAt("_extract_netreceive_block")
            THEN <<"Could not import NET_RECEIVE block">> ELSE <<>>)

\* C3: between any two stages of an import, incomplete_import is true
\* exactly when a recoverable extraction has failed, which is exactly when
\* the warnings list is not empty; the list holds the warnings in the order
\* the blocks are processed in, BREAKPOINT before NET_RECEIVE; every stage
\* leaves the list as it was or appends to it, and never resets the flag.
C3_DiagnosticsAppendOnly ==
    /\ [](step = "import" =>
              /\ self.incomplete_import <=> (self.warnings # <<>>)
              /\ self.incomplete_import
                     <=> (\E stage \in Recoverable : FailedAt(stage))
              /\ self.warnings = ExpectedWarnings)
    /\ [][step = "import" =>
              /\ Len(self'.warnings) >= Len(self.warnings)
              /\ SubSeq(self'.warnings, 1, Len(self.warnings)) = self.warnings
              /\ self.incomplete_import => self'.incomplete_import]_vars

\* C3 witness: both recoverable extractions have failed, and the list
\* holds the two warnings
C3_Witness ==
    /\ step = "import"
    /\ self.incomplete_import
    /\ Len(self.warnings) = 2
    /\ self.warnings[1] = "Could not import BREAKPOINT block"

\* the importer the minimal mechanism yields
MinimalDynamics ==
    /\ pc = "returned"
    /\ self.parameters = [gbar |-> "conductanceDensity"]
    /\ self.state_variables = [m |-> "dimensionless"]
    /\ DOMAIN self.regimes = {self.default_regime}
    /\ DOMAIN self.regimes[self.default_regime].time_derivatives = {"m"}
    /\ self.regimes[self.default_regime].time_derivatives["m"]
           = <<"(", "1", "-", "m", ")", "/", "5">>
    /\ self.regimes[self.default_regime].transitions = <<>>
    /\ self.aliases = [i |-> Str(<<"gbar", "*", "m">>)]
    /\ "i" \in DOMAIN self.analog_ports
    /\ self.analog_ports["i"].mode = "send"

Built ==
    /\ step = "import"
    /\ pc \in {"_add_reserved_variables", "_clean_init_parameters", "returned"}

\* the flag-0 handler of the NET_RECEIVE block calls net_send(d, f), and
\* the handler of flag f assigns the state variable m
Delayed == arg.fname.netreceive \in {"delayed", "delayed_weighted"}

\* the delay d of that net_send
Delay == IF arg.fname.netreceive = "delayed" THEN "5" ELSE "2"

\* C6: for a NET_RECEIVE block whose flag-0 handler calls net_send(d, f),
\* f > 0, and whose flag-f handler assigns a state variable, there are
\* exactly two regimes; the default regime has a transition to the other
\* that sets last_transition to t, the other has an OnCondition transition
\* with guard t > (last_transition + d) back to the default regime that
\* carries the assignment of the flag-f handler, and last_transition is a
\* state variable of dimension time.
C6_DelayedSendMakesTwoRegimes ==
    (Built /\ Delayed) =>
        /\ Cardinality(DOMAIN self.regimes) = 2
        /\ self.default_regime \in DOMAIN self.regimes
        /\ \A other \in DOMAIN self.regimes \ {self.default_regime} :
               /\ \E i \in 1..Len(self.regimes[self.default_regime].transitions) :
                      LET tr == self.regimes[self.default_regime].transitions[i]
                      IN /\ tr.target_regime = other
                         /\ "last_transition" \in DOMAIN tr.state_assignments
                         /\ tr.state_assignments["last_transition"] = Str(<<"t">>)
               /\ \E i \in 1..Len(self.regimes[other].transitions) :
                      LET tr == self.regimes[other].transitions[i]
                      IN /\ tr.kind = "OnCondition"
                         /\ tr.trigger = <<"t", ">", "(", "last_transition",
                                           "+", Delay, ")">>
                         /\ tr.target_regime = self.default_regime
                         /\ "m" \in DOMAIN tr.state_assignments
        /\ "last_transition" \in DOMAIN self.state_variables
        /\ self.state_variables["last_transition"] = "time"

\* the blocks whose declarations carry units, each with the stages that
\* resolve them
UnitStages ==
    [units |-> {"_extract_units_block"},
     assigned |-> {"_extract_assigned_block"},
     state |-> {"_extract_state_block", "_create_state_variables"},
     parameter |-> {"_extract_parameter_and_constant_block",
                    "_create_parameters_and_analog_ports"}]

\* the ways of writing a block that give it a unit the registry does not
\* resolve, or one whose dimensionality is not in the dimension table
BadUnits == {"unknown_dimension", "unresolvable", "unvalued_unresolvable"}

\* C10: a unit string that cannot be resolved, or whose SI dimensionality
\* is not in the dimension table, makes the import fail with
\* Pype9ImportError wherever it is resolved: in the ASSIGNED, STATE,
\* PARAMETER and UNITS declarations and at parameter creation.
C10_BadUnitIsImportError ==
    \A b \in DOMAIN UnitStages :
        (/\ step = "import"
         /\ arg.fname[b] \in BadUnits
         /\ \A c \in DOMAIN arg.fname : c # b => arg.fname[c] = Minimal[c])
        => /\ pc # "returned"
           /\ (pc = "raised")
                  => (Last.stage \in UnitStages[b]
                          /\ Last.err = "Pype9ImportError")

\* the file has more than one DERIVATIVE block
SeveralDerivatives ==
    step = "import" /\ arg.fname.derivative \in {"two", "two_of_one_name"}

\* C11: the import of a file with more than one DERIVATIVE block always
\* ends with NotImplementedError, raised by _create_regimes when every
\* block has been extracted and no regime has been created; the import of
\* a file with no or one DERIVATIVE block never raises it.
C11_SeveralDerivativesNotImplemented ==
    /\ (SeveralDerivatives /\ Terminal)
           => /\ pc = "raised"
              /\ Last.err = "NotImplementedError"
              /\ Last.stage = "_create_regimes"
              /\ DOMAIN self.blocks = {}
              /\ self.regimes = EmptyDict
    /\ (step = "import" /\ ~SeveralDerivatives)
           => \A i \in 1..Len(ret) : ret[i].err # "NotImplementedError"

\* the lines of the NET_RECEIVE block of the file
NetReceiveLines == BlockVariants.netreceive[arg.fname.netreceive]

\* the flag of the handler line n of the NET_RECEIVE block is written in:
\* the one the nearest test `flag == f` before it names
HandlerOf(n) ==
    LET tests == {i \in 1..(n - 1) : FlagTest(NetReceiveLines[i])}
        line == NetReceiveLines[CHOOSE i \in tests : \A j \in tests : j <= i]
    IN line[IndexOf(line, "flag") + 2]

\* the calls net_send(delay, target) of the handlers, each as the flag of
\* the handler and the flag it schedules
Scheduled ==
    {<<HandlerOf(n), NetReceiveLines[n][5]>> :
        n \in {i \in 1..Len(NetReceiveLines) :
                  NetReceiveLines[i][1] = "net_send"}}

\* C19: the number of regimes is one more than the number of flags that
\* some handler schedules with a delayed net_send, also when two handlers
\* schedule the same flag and when the scheduled flag has no handler.
C19_RegimePerTargetFlag ==
    Built => Cardinality(DOMAIN self.regimes)
               = 1 + Cardinality({s[2] : s \in Scheduled})

\* C19 as the code has it: the number of regimes is one more than the
\* number of handlers that call net_send; two handlers that schedule the
\* same flag have a regime each, and a handler that schedules a flag with
\* no handler has one.
C19_RegimePerSendingHandler ==
    Built => /\ Cardinality(DOMAIN self.regimes)
                    = 1 + Cardinality({s[1] : s \in Scheduled})
             /\ self.default_regime \in DOMAIN self.regimes

C19_Witness ==
    /\ Built
    /\ self.initial_flag = None
    /\ arg.fname.netreceive = "two_senders"
    /\ Cardinality({s[1] : s \in Scheduled}) = 2
    /\ Cardinality({s[2] : s \in Scheduled}) = 1
    /\ Cardinality(DOMAIN self.regimes) = 3

\* the transitions of a regime that are guarded by a delay
DelayGuarded(name) ==
    {tr \in {self.regimes[name].transitions[i] :
                i \in 1..Len(self.regimes[name].transitions)} :
        /\ tr.kind = "OnCondition"
        /\ StartsWith(tr.trigger, <<"t", ">", "(", "last_transition", "+">>)}

\* the regimes reached from those of `seen` by delay-guarded transitions
RECURSIVE DelayClosure(_)
DelayClosure(seen) ==
    LET more == seen \cup UNION {{tr.target_regime : tr \in DelayGuarded(name)} :
                                    name \in seen}
    IN IF more = seen THEN seen ELSE DelayClosure(more)

\* some transition of some regime enters the regime
Entered(name) ==
    \E from \in DOMAIN self.regimes :
        \E i \in 1..Len(self.regimes[from].transitions) :
            self.regimes[from].transitions[i].target_regime = name

\* C20: every regime but the default one is the target of a transition, has
\* a transition guarded by t > (last_transition + delay), and reaches the
\* default regime along such transitions.
C20_RegimesLeadBackToDefault ==
    Built =>
        \A name \in DOMAIN self.regimes \ {self.default_regime} :
            /\ Entered(name)
            /\ DelayGuarded(name) # {}
            /\ self.default_regime \in DelayClosure({name})

\* the transitions of a regime that are of a kind and have a trigger
TransitionsOf(name, kind, trigger) ==
    {i \in 1..Len(self.regimes[name].transitions) :
        /\ self.regimes[name].transitions[i].kind = kind
        /\ self.regimes[name].transitions[i].trigger = trigger}

\* the tests of the WATCH statements recorded, whatever their flag
Watches ==
    UNION {{self.triggers[f][i] : i \in 1..Len(self.triggers[f])} :
              f \in DOMAIN self.triggers}

\* C21: every WATCH trigger recorded for a flag has one OnCondition
\* transition in the default regime, with the state assignments and the
\* output events of the handler of the flag; a handler of flag 0 has one
\* OnEvent transition on incoming_spike in the default regime; no other
\* regime has an OnEvent transition or the transition of a WATCH trigger.
C21_EveryTriggerHasTransition ==
    Built =>
        /\ \A f \in DOMAIN self.triggers :
               \A i \in 1..Len(self.triggers[f]) :
                   /\ Cardinality(TransitionsOf(self.default_regime, "OnCondition",
                                                self.triggers[f][i])) = 1
                   /\ f \in DOMAIN self.net_receives
                   /\ \A n \in TransitionsOf(self.default_regime, "OnCondition",
                                             self.triggers[f][i]) :
                          LET tr == self.regimes[self.default_regime].transitions[n]
                          IN /\ tr.state_assignments
                                    = self.net_receives[f].assignments
                             /\ tr.output_events
                                    = self.net_receives[f].output_events
        /\ "0" \in DOMAIN self.net_receives =>
               Cardinality(TransitionsOf(self.default_regime, "OnEvent",
                                         <<"incoming_spike">>)) = 1
        /\ \A name \in DOMAIN self.regimes \ {self.default_regime} :
               \A i \in 1..Len(self.regimes[name].transitions) :
                   /\ self.regimes[name].transitions[i].kind # "OnEvent"
                   /\ self.regimes[name].transitions[i].trigger \notin Watches

\* the INITIAL block of the file calls net_send(0, 1), and the file differs
\* from the minimal mechanism in its INITIAL and NET_RECEIVE blocks only
InitialSends ==
    /\ step = "import"
    /\ arg.fname.initial = "sends"
    /\ arg.fname = [Minimal EXCEPT !.initial = "sends",
                                   !.netreceive = arg.fname.netreceive]

\* the lines of the NET_RECEIVE block that test `flag == f`
FlagTests(f) ==
    {n \in 1..Len(NetReceiveLines) :
        /\ FlagTest(NetReceiveLines[n])
        /\ NetReceiveLines[n][IndexOf(NetReceiveLines[n], "flag") + 2] = f}

\* the assignments `x = e` the handler of a flag is written with
HandlerAssignments(f) ==
    {n \in 2..Len(NetReceiveLines) :
        /\ Len(NetReceiveLines[n]) > 2
        /\ NetReceiveLines[n][2] = "="
        /\ \E i \in 1..(n - 1) : FlagTest(NetReceiveLines[i])
        /\ HandlerOf(n) = f}

\* the extraction of the NET_RECEIVE block raised an import error
NetReceiveFailed ==
    \E i \in 1..Len(ret) : ret[i].stage = "_extract_netreceive_block"

\* C22: when INITIAL calls net_send(0, 1) and NET_RECEIVE has a handler of
\* flag 1, the import returns with 1 as its initial flag, the handler is no
\* longer among the event handlers, the assignments of the handler are in
\* the initial statements, and the regimes are the default one and one for
\* each remaining handler that calls net_send; when the extraction of
\* NET_RECEIVE failed, _create_regimes does not raise.
C22_InitialHandlerMerged ==
    /\ (InitialSends /\ FlagTests("1") # {} /\ ~NetReceiveFailed /\ Terminal)
           => /\ pc = "returned"
              /\ self.initial_flag = "1"
              /\ "1" \notin DOMAIN self.net_receives
              /\ \A n \in HandlerAssignments("1") :
                     /\ NetReceiveLines[n][1] \in DOMAIN self.init_statements
                     /\ self.init_statements[NetReceiveLines[n][1]]
                            = Str(SubSeq(NetReceiveLines[n], 3,
                                         Len(NetReceiveLines[n])))
              /\ Cardinality(DOMAIN self.regimes)
                     = 1 + Cardinality({f \in DOMAIN self.net_receives :
                                           self.net_receives[f].delay # None})
    /\ (InitialSends /\ NetReceiveFailed /\ Terminal)
           => /\ pc = "returned"
              /\ self.default_regime \in DOMAIN self.regimes

\* the stages of __init__, in the order they are called
Stages ==
    <<"_read_blocks", "_extract_defines", "_extract_neuron_block",
      "_extract_units_block", "_extract_assigned_block",
      "_extract_procedure_and_function_blocks",
      "_extract_parameter_and_constant_block", "_extract_initial_block",
      "_extract_state_block", "_create_state_variables",
      "_extract_linear_block", "_extract_kinetic_block",
      "_extract_derivative_block", "_extract_breakpoint_block",
      "_extract_netreceive_block", "_extract_independent_block",
      "_create_parameters_and_analog_ports", "_create_regimes",
      "_add_reserved_variables", "_clean_init_parameters">>

\* the stage about to be called comes after `stage`
Finished(stage) ==
    /\ step = "import"
    /\ \E i, j \in 1..Len(Stages) :
           Stages[i] = stage /\ Stages[j] = pc /\ i < j

\* every entry of the table d is in the table e, unchanged
Kept(d, e) == \A k \in DOMAIN d : k \in DOMAIN e /\ e[k] = d[k]

\* C23: no stage removes or changes an entry of a table that an earlier
\* stage produced: the initial statements after _extract_initial_block,
\* the dimensions and state variables after _extract_state_block, the
\* properties after _extract_parameter_and_constant_block, the parameters
\* after _create_parameters_and_analog_ports, the aliases after
\* _extract_breakpoint_block.
C23_EarlierTablesKept ==
    [][/\ Finished("_extract_initial_block")
              => Kept(self.init_statements, self'.init_statements)
       /\ Finished("_extract_state_block")
              => /\ Kept(self.dimensions, self'.dimensions)
                 /\ Kept(self.state_variables, self'.state_variables)
       /\ Finished("_extract_parameter_and_constant_block")
              => Kept(self.properties, self'.properties)
       /\ Finished("_create_parameters_and_analog_ports")
              => Kept(self.parameters, self'.parameters)
       /\ Finished("_extract_breakpoint_block")
              => Kept(self.aliases, self'.aliases)]_vars

\* _add_reserved_variables has returned
Reserved ==
    step = "import" /\ pc \in {"_clean_init_parameters", "returned"}

\* some transition assigns v, or the import was called with
\* add_membrane_voltage=True
MembraneVoltageRequired ==
    arg.kwargs.add_membrane_voltage \/ "v" \in AllAssignedStates(self)

\* C26: when the membrane voltage is required, v is a state variable, cm a
\* parameter, iExt a reduce port, and every regime has a time derivative of
\* v, so that all regimes have time derivatives of the same variables;
\* otherwise, if some expression reads v, v is an analog receive port and
\* not a state variable.
C26_MembraneEquationInEveryRegime ==
    Reserved =>
        IF MembraneVoltageRequired
        THEN /\ "v" \in DOMAIN self.state_variables
             /\ "cm" \in DOMAIN self.parameters
             /\ "iExt" \in DOMAIN self.analog_ports
             /\ self.analog_ports["iExt"].mode = "reduce"
             /\ \A r \in DOMAIN self.regimes :
                    "v" \in DOMAIN self.regimes[r].time_derivatives
             /\ \A r, q \in DOMAIN self.regimes :
                    DOMAIN self.regimes[r].time_derivatives
                        = DOMAIN self.regimes[q].time_derivatives
        ELSE "v" \in AllRhsSymbols(self)
                 => /\ "v" \in DOMAIN self.analog_ports
                    /\ self.analog_ports["v"].mode = "recv"
                    /\ "v" \notin DOMAIN self.state_variables

\* the number of transitions of the regime table
RECURSIVE TransitionCount(_)
TransitionCount(names) ==
    IF names = {} THEN 0
    ELSE LET name == CHOOSE n \in names : TRUE IN
         Len(self.regimes[name].transitions) + TransitionCount(names \ {name})

\* the number of transitions _create_regimes makes for the handlers: one
\* for every handler that schedules the flag, one for every WATCH trigger
\* of the flag, one for the event port of flag 0
RECURSIVE MadeCount(_)
MadeCount(flags) ==
    IF flags = {} THEN 0
    ELSE LET f == CHOOSE n \in flags : TRUE IN
         Cardinality({g \in DOMAIN self.net_receives :
                         self.net_receives[g].target = f})
             + Len(Pop(self.triggers, f, <<>>))
             + (IF f = "0" THEN 1 ELSE 0)
             + MadeCount(flags \ {f})

\* C28: after regime synthesis the default regime is regime_0 and is in the
\* regime table, the regimes are named regime_0 .. regime_(n-1), every
\* transition made for a handler is in a regime of the table, and the
\* target of every transition is a regime of the table.
C28_RegimeTableIsClosed ==
    Built =>
        /\ self.default_regime = "regime_0"
        /\ "regime_0" \in DOMAIN self.regimes
        /\ DOMAIN self.regimes =
               {"regime_" \o ToString(i) :
                    i \in 0..(Cardinality(DOMAIN self.regimes) - 1)}
        /\ TransitionCount(DOMAIN self.regimes)
               = MadeCount(DOMAIN self.net_receives)
        /\ \A r \in DOMAIN self.regimes :
               \A i \in 1..Len(self.regimes[r].transitions) :
                   self.regimes[r].transitions[i].target_regime
                       \in DOMAIN self.regimes

\* C28 witness: three regimes, a transition into each of the two that are
\* not the default one
C28_Witness ==
    /\ Built
    /\ Cardinality(DOMAIN self.regimes) = 3
    /\ \A name \in DOMAIN self.regimes \ {self.default_regime} :
           Entered(name)
    /\ TransitionCount(DOMAIN self.regimes) >= 3

\* the file declares the state variable m in its STATE block and assigns
\* it in its INITIAL block, and its import has returned
InitialAssigned ==
    /\ Terminal
    /\ pc = "returned"
    /\ arg.fname.initial = "assigns"
    /\ arg.fname.state # "none"

\* C29: after the import of a file that declares m in STATE and has m = 0
\* in INITIAL, initial_state holds the expression 0 for m, whether the
\* declaration of m has units or not.
C29_InitialStateHoldsInitialValue ==
    InitialAssigned =>
        /\ "m" \in DOMAIN self.initial_state
        /\ self.initial_state["m"] = <<"0">>

(***************************************************************************)
(* Several imports in one process.  The dict that is the default value of  *)
(* the parameter subs of _extract_stmts_block and the registry of the      *)
(* quantities package are objects of the process: an importer finds them   *)
(* as the importer before it left them.  A file is imported alone in a     *)
(* process of its own, then again in a process that has imported another   *)
(* file before.                                                            *)
(***************************************************************************)
\* the files of a process: the minimal mechanism with its UNITS, ASSIGNED
\* or BREAKPOINT block written in each of the ways
ProcessFiles ==
    UNION {{[Minimal EXCEPT ![b] = v] : v \in DOMAIN BlockVariants[b]} :
              b \in {"units", "assigned", "breakpoint"}}

\* what an import leaves: how it ended and what the importer holds
Outcome ==
    [pc |-> pc, ret |-> ret, aliases |-> self.aliases,
     breakpoint_aliases |-> self.breakpoint_aliases,
     init_statements |-> self.init_statements,
     parameters |-> self.parameters,
     state_variables |-> self.state_variables, regimes |-> self.regimes]

ProcessInit ==
    \E file \in ProcessFiles, other \in ProcessFiles :
        /\ arg = [fname |-> file, kwargs |-> [add_membrane_voltage |-> FALSE],
                  phase |-> "alone", target |-> file, other |-> other,
                  alone |-> <<>>]
        /\ src = Contents(file)
        /\ self = NewImporter(arg.kwargs)
        /\ pc = "_read_blocks"
        /\ ret = <<>>
        /\ step = "import"

\* a new process: NMODLImporter(other), with the default dict and the
\* registry as the interpreter creates them
NewProcess ==
    /\ Terminal
    /\ arg.phase = "alone"
    /\ arg' = [arg EXCEPT !.fname = arg.other, !.phase = "other",
                          !.alone = Outcome]
    /\ src' = Contents(arg.other)
    /\ self' = NewImporter(arg.kwargs)
    /\ pc' = "_read_blocks"
    /\ ret' = <<>>
    /\ UNCHANGED step

\* NMODLImporter(target) in the process that has imported the other file
ImportNext ==
    /\ Terminal
    /\ arg.phase = "other"
    /\ arg' = [arg EXCEPT !.fname = arg.target, !.phase = "again"]
    /\ src' = Contents(arg.target)
    /\ self' = [NewImporter(arg.kwargs) EXCEPT
                   !.default_subs = self.default_subs,
                   !.unit_registry = self.unit_registry]
    /\ pc' = "_read_blocks"
    /\ ret' = <<>>
    /\ UNCHANGED step

ProcessNext == Next \/ NewProcess \/ ImportNext

SpecProcess == ProcessInit /\ [][ProcessNext]_vars

\* the file has been imported after another file of the same process
ImportedAgain == Terminal /\ arg.phase = "again"

\* C13: the import of a file in a process that has imported another file
\* before ends as its import in a process of its own does, with the same
\* aliases, statement maps, parameters, state variables and regimes.
C13_ImportsAreIndependent ==
    ImportedAgain => Outcome = arg.alone

(***************************************************************************)
(* The brace matcher run to exhaustion over a text, as _read_blocks runs   *)
(* it: `for decl, contents, _ in self._matching_braces(line_iter, ...)`.   *)
(***************************************************************************)
MaxBraceLen == 6

BraceAlphabet == {"{", "}", "a", NL}


\* str.splitlines(): a trailing line break opens no further line
RECURSIVE SplitLines(_)
SplitLines(text) ==
    IF text = <<>> THEN <<>>
    ELSE IF \E i \in 1..Len(text) : text[i] = NL
    THEN LET i == CHOOSE k \in 1..Len(text) :
                      text[k] = NL /\ \A m \in 1..(k - 1) : text[m] # NL
         IN <<SubSeq(text, 1, i - 1)>> \o SplitLines(SliceFrom(text, i))
    ELSE <<text>>

BraceInit ==
    /\ arg \in [text : SeqsUpTo(BraceAlphabet, MaxBraceLen),
                multiline_pre : BOOLEAN]
    /\ ret = [g |-> MBStart(<<>>, arg.multiline_pre), pos |-> 1,
              yields |-> <<>>, status |-> "running"]
    /\ step = "braces"
    /\ src = <<>>
    /\ pc = "idle"
    /\ self = <<>>

\* one iteration of the for loop over the generator
BraceNext ==
    /\ step = "braces"
    /\ ret.status = "running"
    /\ LET r == MBResume(ret.g, SplitLines(arg.text), ret.pos) IN
       ret' = [g |-> r.g, pos |-> r.pos,
               yields |-> IF r.out = "yield"
                          THEN Append(ret.yields, <<r.pre, r.blk, r.nline>>)
                          ELSE ret.yields,
               status |-> CASE r.out = "yield" -> "running"
                            [] r.out = "stop" -> "stopped"
                            [] r.out = "error" -> "Pype9ImportError"]
    /\ UNCHANGED <<src, pc, self, arg, step>>

SpecBraces == BraceInit /\ [][BraceNext]_vars

\* the nesting depth after the first n tokens of a text
BraceDepth(text, n) ==
    Cardinality({i \in 1..n : text[i] = "{"})
        - Cardinality({i \in 1..n : text[i] = "}"})

\* the closing braces of a text that close a depth-0 group
ClosedGroups(text) ==
    {n \in 1..Len(text) : text[n] = "}" /\ BraceDepth(text, n) = 0}

\* C4: when the input ends at a nesting depth other than zero the brace
\* matcher raises Pype9ImportError, having yielded one block per closed
\* group and none for the group left open; when the input ends at depth
\* zero it finishes without error.
C4_UnterminatedBraceIsFatal ==
    (step = "braces" /\ ret.status # "running") =>
        /\ (ret.status = "Pype9ImportError")
               <=> (BraceDepth(arg.text, Len(arg.text)) # 0)
        /\ (ret.status = "stopped")
               <=> (BraceDepth(arg.text, Len(arg.text)) = 0)
        /\ Len(ret.yields) = Cardinality(ClosedGroups(arg.text))

\* C4 witness: a text with a closed group followed by a group left open
C4_Witness ==
    /\ step = "braces"
    /\ ret.status = "Pype9ImportError"
    /\ Len(ret.yields) >= 1
    /\ BraceDepth(arg.text, Len(arg.text)) > 0

\* the braces of a text are balanced: every prefix has closed no more
\* groups than it has opened, and the text leaves none open
Balanced(text) ==
    /\ BraceDepth(text, Len(text)) = 0
    /\ \A n \in 1..Len(text) : BraceDepth(text, n) >= 0

\* the opening brace of the depth-0 group that the brace at n closes
Opening(text, n) ==
    CHOOSE o \in 1..n :
        /\ text[o] = "{"
        /\ BraceDepth(text, o) = 1
        /\ \A i \in o..(n - 1) : BraceDepth(text, i) >= 1

\* the k-th closing brace of a depth-0 group
NthClosed(text, k) ==
    CHOOSE n \in ClosedGroups(text) :
        Cardinality({m \in ClosedGroups(text) : m <= n}) = k

\* the lines of a text that are not empty
ContentLines(text) == SelectSeq(SplitLines(text), LAMBDA l : l # <<>>)

\* C27: over a text with balanced braces the brace matcher yields one
\* result per depth-0 group, in the order of the text, and the block of
\* each result is the text between the opening brace of the group and its
\* closing brace, line by line, also for groups that share a line.
C27_BlocksAreGroupContents ==
    (step = "braces" /\ ret.status # "running" /\ Balanced(arg.text)) =>
        /\ ret.status = "stopped"
        /\ Len(ret.yields) = Cardinality(ClosedGroups(arg.text))
        /\ \A k \in 1..Len(ret.yields) :
               LET n == NthClosed(arg.text, k) IN
               ret.yields[k][2] =
                   ContentLines(SubSeq(arg.text, Opening(arg.text, n) + 1,
                                       n - 1))

\* two depth-0 groups of the text are closed or opened on one line: no
\* line break is between the closing brace of one and the opening brace of
\* the next
GroupsShareLine(text) ==
    \E n \in ClosedGroups(text) :
        \E o \in (n + 1)..Len(text) :
            /\ text[o] = "{"
            /\ \A i \in n..o : text[i] # NL

(***************************************************************************)
(* Properties of the flattener                                             *)
(***************************************************************************)
Flattened == pc = "done" /\ arg.op = "_extract_stmts_block"

PlainAssignments == {"x_1", "x_inc", "x_dbl", "y_x"}

\* C7: an if/else that assigns a in both branches, a neither a state
\* variable nor defined earlier in the block, flattens to exactly one entry
\* for a, the piecewise [(1, c), (2, True)], and to no a__branchN entry,
\* whether the chain is written over several lines or on one line.
C7_IfElseIsOnePiecewise ==
    (/\ Flattened
     /\ arg.stmts # <<>>
     /\ arg.stmts[Len(arg.stmts)] \in {"if_else", "if_else_1line"}
     /\ \A i \in 1..(Len(arg.stmts) - 1) : arg.stmts[i] \in PlainAssignments)
    => /\ ret.err = NoError
       /\ "a" \in DOMAIN ret.statements
       /\ ret.statements["a"] = Pw(<< <<<<"1">>, <<"c">>>>, <<<<"2">>, True>> >>)
       /\ {"a__branch0", "a__branch1"} \cap DOMAIN ret.statements = {}

\* the guards of a list of pieces: exactly one True, and that one last
OneOtherwiseLast(pieces) ==
    /\ pieces # <<>>
    /\ pieces[Len(pieces)][2] = True
    /\ \A i \in 1..(Len(pieces) - 1) : pieces[i][2] # True

\* C8: every piecewise the flattener puts in a statement map has exactly
\* one piece guarded by True, the last one; and building a piecewise alias
\* from a list with no True-guarded piece, or with several, fails.
C8_OneOtherwisePerPiecewise ==
    /\ Flattened =>
           \A lhs \in DOMAIN ret.statements :
               ret.statements[lhs].k = "pw"
                   => OneOtherwiseLast(ret.statements[lhs].v)
    /\ (pc = "done" /\ arg.op = "_get_piecewise"
            /\ Cardinality({i \in 1..Len(arg.rhs) : arg.rhs[i][2] = True}) # 1)
           => ret.err = "AssertionError"

\* the positions of a block that assign x
XDefs(stmts) == {i \in 1..Len(stmts) : stmts[i] \in {"x_1", "x_inc", "x_dbl"}}

\* the name the j-th of k definitions of x is expected under
XName(j, k) ==
    IF j = 0 \/ j = k THEN "x"
    ELSE IF j = 1 THEN "x__tmp" ELSE "x__tmp" \o ToString(j - 1)

\* the right-hand side of a plain assignment, reading x under the name p
RhsReading(stmt, p) ==
    CASE stmt = "x_1" -> <<"1">>
      [] stmt = "x_inc" -> <<p, "+", "1">>
      [] stmt = "x_dbl" -> <<p, "*", "2">>
      [] stmt = "y_x" -> <<p>>

\* C9: after k plain assignments to x the map holds x and the k-1
\* temporaries x__tmp, x__tmp1, ...; each holds one right-hand side, reading
\* x under the name of the definition that was current when it was written;
\* x holds the last; an expression of another symbol written after a
\* definition of x reads that definition.
C9_ShadowedDefinitionsKept ==
    (/\ Flattened
     /\ \A i \in 1..Len(arg.stmts) : arg.stmts[i] \in PlainAssignments
     /\ XDefs(arg.stmts) # {})
    => LET k == Cardinality(XDefs(arg.stmts))
           Nth(j) == CHOOSE i \in XDefs(arg.stmts) :
                         Cardinality({m \in XDefs(arg.stmts) : m <= i}) = j
           ys == {i \in 1..Len(arg.stmts) : arg.stmts[i] = "y_x"}
       IN /\ ret.err = NoError
          /\ \A j \in 1..k :
                 /\ XName(j, k) \in DOMAIN ret.statements
                 /\ ret.statements[XName(j, k)] =
                        Str(RhsReading(arg.stmts[Nth(j)], XName(j - 1, 0)))
          /\ XName(k, k + 1) \notin DOMAIN ret.statements
          /\ \A i \in ys :
                 (Cardinality(ys) = 1 /\ \E m \in XDefs(arg.stmts) : m < i)
                     => ret.statements["y"] =
                            Str(<<XName(Cardinality({m \in XDefs(arg.stmts) :
                                                        m < i}), k)>>)

\* the conditionals that assign x in their first branch only, with the
\* number of their branches
PartialConditionals == [if_x_else_a |-> 2, if_x_else_else |-> 3]

\* the block ends with a conditional that assigns the state variable x in
\* some of its branches only, and plain assignments come before it
PartiallyAssigned ==
    /\ Flattened
    /\ "x" \in DOMAIN arg.me.state_variables
    /\ arg.stmts # <<>>
    /\ arg.stmts[Len(arg.stmts)] \in DOMAIN PartialConditionals
    /\ \A i \in 1..(Len(arg.stmts) - 1) : arg.stmts[i] \in PlainAssignments

\* C24: when a state variable is assigned in some branches of a conditional
\* only, its entry is a piecewise of one piece per branch, and the piece of
\* every branch that does not assign it is the state variable itself,
\* whatever was assigned to it earlier in the block; the entries of the
\* other symbols defined before the conditional are as they were.
C24_MissingBranchesKeepState ==
    PartiallyAssigned =>
        LET before == ExtractStmtsBlock(
                          Block(SubSeq(arg.stmts, 1, Len(arg.stmts) - 1)),
                          arg.me.default_subs, "", arg.me).statements
        IN /\ ret.err = NoError
           /\ "x" \in DOMAIN ret.statements
           /\ ret.statements["x"].k = "pw"
           /\ Len(ret.statements["x"].v)
                  = PartialConditionals[arg.stmts[Len(arg.stmts)]]
           /\ \A i \in 2..Len(ret.statements["x"].v) :
                  ret.statements["x"].v[i][1] = <<"x">>
           /\ \A k \in DOMAIN before \ {"x"} :
                  k \in DOMAIN ret.statements /\ ret.statements[k] = before[k]

\* the block ends with `if (c) { x = 5 }`, a conditional without else, and
\* plain assignments come before it
EndsWithoutElse ==
    /\ Flattened
    /\ arg.stmts # <<>>
    /\ arg.stmts[Len(arg.stmts)] = "if_x"
    /\ \A i \in 1..(Len(arg.stmts) - 1) : arg.stmts[i] \in PlainAssignments

\* C25: a symbol assigned in the only branch of a conditional without else
\* ends, unless an error is raised, with a piecewise entry under its own
\* name that keeps the guard of the conditional on the assigned value and
\* has a catch-all piece: the definition made earlier in the block if the
\* symbol is not read by it, the state variable itself if there is none.
C25_NoElseKeepsGuard ==
    (EndsWithoutElse /\ ret.err = NoError) =>
        /\ "x" \in DOMAIN ret.statements
        /\ ret.statements["x"].k = "pw"
        /\ ret.statements["x"].v[1] = << <<"5">>, <<"c">> >>
        /\ ret.statements["x"].v[Len(ret.statements["x"].v)][2] = True
        /\ XDefs(arg.stmts) = {}
               => ret.statements["x"].v[2] = << <<"x">>, True >>
        /\ (Len(arg.stmts) = 2 /\ arg.stmts[1] = "x_1")
               => ret.statements["x"].v[2] = << <<"1">>, True >>

(***************************************************************************)
(* Properties of the flattener on blocks that call functions               *)
(***************************************************************************)
Inlined == pc = "done" /\ step = "inline"

\* a line opens a `for (...)` or `while (...)` statement
IsLoop(line) == Len(line) >= 2 /\ line[1] \in {"for", "while"} /\ line[2] = "("

HasLoop(block) == \E n \in 1..Len(block) : IsLoop(block[n])

\* the block calls, on the right of an assignment, a function whose body
\* holds a loop, or calls a procedure whose body holds one
InlinesLoop(block, me) ==
    \E n \in 1..Len(block) :
        \/ /\ Contains(block[n], "=")
           /\ \E i \in (IndexOf(block[n], "=") + 1)..(Len(block[n]) - 1) :
                  /\ block[n][i] \in DOMAIN me.functions
                  /\ block[n][i + 1] = "("
                  /\ HasLoop(me.functions[block[n][i]].block)
        \/ /\ block[n][1] \in DOMAIN me.procedures
           /\ HasLoop(me.procedures[block[n][1]].block)

BeforeLoop(stmts) ==
    LET loops == {i \in 1..Len(stmts) :
                     \/ HasLoop(CallLines[stmts[i]])
                     \/ InlinesLoop(CallLines[stmts[i]], Library)}
    IN SubSeq(stmts, 1, (CHOOSE i \in loops : \A j \in loops : i <= j) - 1)

Upto(n) ==
    ExtractStmtsBlock(CallBlock(SubSeq(arg.stmts, 1, n)), arg.me.default_subs,
                      "", arg.me)

\* the symbols statement n of the block records a definition for
Records(n) ==
    DOMAIN ExtractStmtsBlock(CallLines[arg.stmts[n]], arg.me.default_subs, "",
                             arg.me).statements

\* statement n gives the symbol k, defined by the statements before it, a
\* new definition and no entry k__tmp... is added for the earlier one
ReplacedInPlace(n, k) ==
    /\ k \in Records(n) \cap DOMAIN Upto(n - 1).statements
    /\ Upto(n).statements[k] # Upto(n - 1).statements[k]
    /\ ~\E t \in DOMAIN Upto(n).statements \ DOMAIN Upto(n - 1).statements :
           StartsWith(t, k \o "__tmp")

\* C15: when a statement of a block records a definition for a symbol that
\* the statement map already holds, by an assignment, by the statements of
\* an inlined function or procedure or by a conditional block, the earlier
\* entry is kept under a fresh temporary name: no entry is replaced in
\* place.
C15_NoEntryReplacedInPlace ==
    (Inlined /\ ret.err = NoError)
        => \A n \in 1..Len(arg.stmts) :
               \A k \in DOMAIN Upto(n).statements : ~ReplacedInPlace(n, k)

\* statement n of the block is one line `lhs = name(args)` that calls a
\* user function
IsCall(n) ==
    LET l == CallLines[arg.stmts[n]][1] IN
    /\ Len(CallLines[arg.stmts[n]]) = 1
    /\ Len(l) >= 5 /\ l[2] = "=" /\ l[4] = "(" /\ l[Len(l)] = ")"
    /\ l[3] \in DOMAIN arg.me.functions

Callee(n) == CallLines[arg.stmts[n]][1][3]

CallArgvals(n) ==
    LET l == CallLines[arg.stmts[n]][1] IN SplitArgs(SubSeq(l, 5, Len(l) - 1))

\* the name the call of statement n is inlined under: what its left-hand
\* side is defined as
CallName(n) == ret.statements[CallLines[arg.stmts[n]][1][1]].v

\* C16: two calls of one user function are inlined under different names
\* when their argument lists differ in some argument, and under one name
\* when their arguments are textually equal.
C16_SuffixIsInjective ==
    (/\ Inlined /\ ret.err = NoError
     /\ Len(arg.stmts) = 2 /\ IsCall(1) /\ IsCall(2)
     /\ Callee(1) = Callee(2)
     /\ CallLines[arg.stmts[1]][1][1] # CallLines[arg.stmts[2]][1][1])
        => (CallArgvals(1) # CallArgvals(2)) <=> (CallName(1) # CallName(2))

\* the expressions a value of a statement map is made of
Exprs(val) ==
    IF val.k = "str" THEN {val.v}
    ELSE IF val.k = "args" THEN {val.v[i] : i \in 1..Len(val.v)}
    ELSE UNION {{val.v[i][1], val.v[i][2]} : i \in 1..Len(val.v)}

\* the expression calls a FUNCTION or PROCEDURE of the file
CallsUser(expr, me) ==
    \E i \in 1..(Len(expr) - 1) :
        /\ expr[i] \in DOMAIN me.functions \cup DOMAIN me.procedures
        /\ expr[i + 1] = "("

\* C17: the flattening of a block that calls the functions and procedures
\* of the file ends, either with an exception or with a statement map none
\* of whose values calls a user function.
C17_NoUserCallRemains ==
    Inlined =>
        \/ ret.err # NoError
        \/ \A k \in DOMAIN ret.statements :
               \A e \in Exprs(ret.statements[k]) : ~CallsUser(e, arg.me)

\* a square bracket among the characters of a key
RECURSIVE HasBracket(_)
HasBracket(key) ==
    /\ key # ""
    /\ \/ SubSeq(key, 1, 1) \in {"[", "]"}
       \/ HasBracket(SubSeq(key, 2, Len(key)))

\* the array references name[index] of a line, as pairs
ArrayRefs(line) ==
    {<<line[i], line[i + 2]>> :
        i \in {n \in 1..(Len(line) - 3) :
                  /\ line[n] \notin Punctuation
                  /\ line[n + 1] = "[" /\ line[n + 3] = "]"}}

\* the symbols of a statement map: its keys and the tokens of its values
NamesIn(statements) ==
    DOMAIN statements
        \cup UNION {{e[i] : i \in 1..Len(e)} :
                       e \in UNION {Exprs(statements[k]) :
                                       k \in DOMAIN statements}}

\* C18: in the statement map of a flattened block no key and no expression
\* holds a square bracket, every array reference x[i] of the block has become
\* the symbol x__elem_i, and different references become different symbols.
C18_ArrayReferencesRewritten ==
    (Inlined /\ ret.err = NoError)
        => /\ \A y \in NamesIn(ret.statements) : ~HasBracket(y)
           /\ \A n \in 1..Len(CallBlock(arg.stmts)) :
                  \A ref \in ArrayRefs(CallBlock(arg.stmts)[n]) :
                      (ref[1] \o "__elem_" \o ref[2])
                          \in NamesIn(ret.statements)

(***************************************************************************)
(* CellMetaClass.__new__: the cell types built in one process.  self holds *)
(* the dict _built_types of the metaclass, keyed by (name, url), and the   *)
(* number of classes built; arg is the request, with the options each      *)
(* class of _built_types was requested with when the request was made; ret *)
(* is what the request returned or raised, src how every request so far    *)
(* ended.                                                                  *)
(***************************************************************************)
MaxRequests == 3

CellNames == {"A", "B"}

\* the url of the component class: None for one made programmatically
Urls == {"a.xml", None}

\* the keyword arguments of a request: build_mode, and possibly build_dir
\* and another build option
Kwargs ==
    {kw \in UNION {[ks -> {"lazy", "force", "d1", "d2", "on"}] :
                      ks \in SUBSET {"build_mode", "build_dir", "opt"}} :
        /\ "build_mode" \in DOMAIN kw
        /\ kw["build_mode"] \in {"lazy", "force"}
        /\ "build_dir" \in DOMAIN kw => kw["build_dir"] \in {"d1", "d2"}
        /\ "opt" \in DOMAIN kw => kw["opt"] = "on"}

CellsInit ==
    /\ src = <<>>
    /\ self = [built_types |-> EmptyDict, built |-> 0]
    /\ pc = "idle"
    /\ step = "cells"
    /\ ret = <<>>
    /\ arg = <<>>

\* CellMetaClass.__new__(component_class, name=name, **kw), for a component
\* class of the given url and no default properties: the metaclass and the
\* outcome it leaves.  The class built is named by its rank among the
\* classes built.
NewCell(name, url, kw) ==
    LET \* `kwargs.pop('build_mode', 'lazy')`
        kwargs == DictDel(kw, "build_mode")
        key == <<name, url>>
    IN IF key \in DOMAIN self.built_types
       THEN IF self.built_types[key].build_options # kwargs
            THEN [S |-> self,
                  ret |-> [err |-> "Pype9RuntimeError", Cell |-> None,
                           generated |-> FALSE]]
            ELSE [S |-> self,
                  ret |-> [err |-> NoError,
                           Cell |-> self.built_types[key].Cell,
                           generated |-> FALSE]]
       \* `build_dir = kwargs.pop('build_dir', None)`
       ELSE IF Pop(kwargs, "build_dir", None) = None /\ url = None
       THEN [S |-> self,
             ret |-> [err |-> "Pype9RuntimeError", Cell |-> None,
                      generated |-> FALSE]]
       \* `cls._built_types[(name, url)] = Cell, kwargs`: the dict the pop
       \* has taken build_dir from
       ELSE [S |-> [self EXCEPT
                       !.built = @ + 1,
                       !.built_types =
                           DictSet(@, key,
                                   [Cell |-> self.built + 1,
                                    build_options |-> DictDel(kwargs, "build_dir")])],
             ret |-> [err |-> NoError, Cell |-> self.built + 1,
                      generated |-> TRUE]]

\* the options every class of _built_types was requested with
Requested ==
    IF arg = <<>> THEN EmptyDict
    ELSE IF ret.generated
    THEN DictSet(arg.requested, <<arg.name, arg.url>>,
                 DictDel(arg.kwargs, "build_mode"))
    ELSE arg.requested

\* one request of a cell type
RequestCell ==
    /\ step = "cells"
    /\ Len(src) < MaxRequests
    /\ \E name \in CellNames, url \in Urls, kw \in Kwargs :
           LET r == NewCell(name, url, kw) IN
           /\ self' = r.S
           /\ ret' = r.ret
           /\ arg' = [name |-> name, url |-> url, kwargs |-> kw,
                      requested |-> Requested]
           /\ pc' = IF r.ret.err = NoError THEN "returned" ELSE "raised"
    /\ src' = Append(src, pc')
    /\ UNCHANGED step

SpecCells == CellsInit /\ [][RequestCell]_vars

\* a class of this name and url was built by an earlier request
BuiltEarlier == step = "cells" /\ arg # <<>>
                    /\ <<arg.name, arg.url>> \in DOMAIN arg.requested

\* C14: a request with the name, url and build options of the earlier
\* request that built the class returns that class and generates no code;
\* a request with its name and url and other build options raises
\* Pype9RuntimeError.  build_dir is one of the options compared, build_mode
\* is not.
C14_CacheComparesBuildOptions ==
    BuiltEarlier =>
        IF DictDel(arg.kwargs, "build_mode")
               = arg.requested[<<arg.name, arg.url>>]
        THEN /\ ret.err = NoError
             /\ ~ret.generated
             /\ ret.Cell = self.built_types[<<arg.name, arg.url>>].Cell
        ELSE ret.err = "Pype9RuntimeError"

(***************************************************************************)
(* The state of a cell, Cell.update_state and Cell.initialize.  self is    *)
(* the cell: its members _initialized and _initial_state, and sim, the     *)
(* variables of the simulator object that _set writes.  src counts the     *)
(* calls made; arg is the last call, with the state that the calls made    *)
(* while the cell was not initialised have handed over last.               *)
(***************************************************************************)
MaxStateCalls == 4

\* the parameters and state variables of the component class of the cell
CellVars == {"v", "m"}

\* the states handed to update_state: dicts from names to values, q being
\* no parameter or state variable of the component class
StateNames == CellVars \cup {"q"}

StateValues(name) == IF name = "v" THEN {1, 2} ELSE {1}

CellStates ==
    UNION {{st \in [names -> {1, 2}] :
               \A n \in names : st[n] \in StateValues(n)} :
              names \in SUBSET StateNames}

\* the orders a dict of these keys is iterated in
Orders(keys) ==
    {o \in [1..Cardinality(keys) -> keys] :
        \A i, j \in 1..Cardinality(keys) : o[i] = o[j] => i = j}

\* `self._initial_state = None` is the empty sequence, a recorded state the
\* sequence of that one dict
NoState == <<>>

\* Cell.__init__, lines 176-181, after the deriving class has created the
\* simulator object
NewCellObject ==
    [_initialized |-> FALSE, _initial_state |-> NoState,
     sim |-> [n \in CellVars |-> 0], err |-> NoError]

\* `setattr(self, k, q)`: Cell.__setattr__ of a created cell
SetAttr(cell, varname, val) ==
    IF cell.err # NoError THEN cell
    ELSE IF varname \notin CellVars
    THEN [cell EXCEPT !.err = "Pype9AttributeError"]
    ELSE [cell EXCEPT !.sim[varname] = val]

\* _set_state: `for k, q in state.iteritems(): setattr(self, k, q)`
RECURSIVE SetState(_, _, _)
SetState(cell, state, order) ==
    IF order = <<>> THEN cell
    ELSE SetState(SetAttr(cell, order[1], state[order[1]]), state, Tail(order))

\* a mutation of Recorded: the first state handed over is kept
RecordedOnce(cell, state) ==
    IF cell._initial_state = NoState
    THEN [cell EXCEPT !._initial_state = <<state>>]
    ELSE cell

\* `super(Cell, self).__setattr__('_initial_state', state)`
Recorded(cell, state) ==
    [cell EXCEPT !._initial_state = <<state>>]

CellInit ==
    /\ step = "state"
    /\ self = NewCellObject
    /\ arg = [op |-> "__init__", state |-> NoState, handed |-> NoState]
    /\ ret = [err |-> NoError]
    /\ src = 0
    /\ pc = "returned"

\* cell.update_state(state)
UpdateState ==
    /\ step = "state"
    /\ src < MaxStateCalls
    /\ \E state \in CellStates : \E order \in Orders(DOMAIN state) :
           LET cell == [self EXCEPT !.err = NoError]
               after == IF cell._initialized
                        THEN SetState(cell, state, order)
                        ELSE Recorded(cell, state)
           IN /\ self' = after
              /\ arg' = [op |-> "update_state", state |-> <<state>>,
                         handed |-> IF self._initialized THEN arg.handed
                                    ELSE <<state>>]
              /\ ret' = [err |-> after.err]
              /\ pc' = IF after.err = NoError THEN "returned" ELSE "raised"
    /\ src' = src + 1
    /\ UNCHANGED step

\* cell.initialize()
Initialize ==
    /\ step = "state"
    /\ src < MaxStateCalls
    /\ \E order \in IF self._initial_state = NoState THEN {<<>>}
                    ELSE Orders(DOMAIN self._initial_state[1]) :
           LET cell == [self EXCEPT !.err = NoError]
               written == SetState(cell, cell._initial_state[1], order)
               after == IF cell._initial_state = NoState
                        THEN [cell EXCEPT !.err = "Pype9RuntimeError"]
                        ELSE IF written.err # NoError THEN written
                        ELSE [written EXCEPT !._initialized = TRUE]
           IN /\ self' = after
              /\ arg' = [op |-> "initialize", state |-> NoState,
                         handed |-> arg.handed]
              /\ ret' = [err |-> after.err]
              /\ pc' = IF after.err = NoError THEN "returned" ELSE "raised"
    /\ src' = src + 1
    /\ UNCHANGED step

CellNext == UpdateState \/ Initialize

SpecState == CellInit /\ [][CellNext]_vars

(***************************************************************************)
(* Properties of update_state and initialize.                               *)
(***************************************************************************)

\* the simulator variables after every value of the state was written
WrittenTo(sim, state) ==
    [n \in DOMAIN sim |-> IF n \in DOMAIN state THEN state[n] ELSE sim[n]]

\* every name of the state is a parameter or state variable of the cell
Settable(state) == DOMAIN state \subseteq CellVars

\* update_state on a cell that is not initialised records the state and
\* writes no simulator variable
OnlyRecords ==
    (arg'.op = "update_state" /\ ~self._initialized)
        => /\ self'._initial_state = arg'.state
           /\ self'.sim = self.sim
           /\ ~self'._initialized
           /\ ret'.err = NoError

\* initialize with no state handed over raises and leaves the cell as it was
NeedsState ==
    (arg'.op = "initialize" /\ arg.handed = NoState)
        => /\ ret'.err = "Pype9RuntimeError"
           /\ ~self'._initialized
           /\ self'.sim = self.sim

\* initialize writes the state handed over last, when it is one of `states'
InitializeWrites(states) ==
    (arg'.op = "initialize" /\ arg.handed # NoState
                            /\ arg.handed[1] \in states)
        => /\ ret'.err = NoError
           /\ self'._initialized
           /\ self'.sim = WrittenTo(self.sim, arg.handed[1])

\* update_state on an initialised cell writes the state, when it is one of
\* `states'
UpdateWrites(states) ==
    (arg'.op = "update_state" /\ self._initialized
                              /\ arg'.state[1] \in states)
        => /\ ret'.err = NoError
           /\ self'.sim = WrittenTo(self.sim, arg'.state[1])
           /\ self'._initial_state = self._initial_state

\* a state with a name the cell does not have raises Pype9AttributeError
\* from _set_state, some of its other values written, and the cell stays
\* initialised or not as it was
UnknownNameRaises ==
    LET given == IF arg'.op = "initialize" THEN arg.handed ELSE arg'.state
        writes == arg'.op = "initialize" \/ self._initialized
    IN (writes /\ given # NoState /\ ~Settable(given[1]))
        => /\ ret'.err = "Pype9AttributeError"
           /\ self'._initialized = self._initialized
           /\ \A n \in CellVars :
                  self'.sim[n] \in
                      {self.sim[n], WrittenTo(self.sim, given[1])[n]}

StaysInitialized == self._initialized => self'._initialized

\* C30 as stated: before initialisation update_state only records;
\* initialize raises Pype9RuntimeError without a recorded state and
\* otherwise writes the state recorded last and marks the cell initialised;
\* afterwards every update_state writes its state to the simulator and the
\* cell stays initialised.
C30_Stated_RecordThenWrite ==
    [][/\ OnlyRecords
       /\ NeedsState
       /\ InitializeWrites(CellStates)
       /\ UpdateWrites(CellStates)
       /\ StaysInitialized]_vars

\* C30 amended: the same, for the states all of whose names are parameters
\* or state variables of the cell; a state with another name makes the
\* write raise Pype9AttributeError, and initialize then leaves the cell
\* uninitialised.
C30_RecordThenWrite ==
    [][/\ OnlyRecords
       /\ NeedsState
       /\ InitializeWrites({st \in CellStates : Settable(st)})
       /\ UpdateWrites({st \in CellStates : Settable(st)})
       /\ UnknownNameRaises
       /\ StaysInitialized]_vars

\* a state was recorded, initialize wrote it, and an update_state made
\* afterwards has written another value of v
C30_Witness ==
    /\ step = "state"
    /\ self._initialized
    /\ self._initial_state = <<[v |-> 1, m |-> 1]>>
    /\ arg.op = "update_state"
    /\ arg.state = <<[v |-> 2]>>
    /\ self.sim = [v |-> 2, m |-> 1]

====
